---- MODULE Spec2Model ----
(***************************************************************************)
(* A state-machine model of the js-debugger trace engine:                  *)
(*   executeCode (engine/executor.js)  ->  generateTrace (instrumenter.js) *)
(*   ->  parseCode / createTracer (parser.js).                             *)
(* The tree-walking interpreter is modelled as an abstract machine with an *)
(* explicit control stack (kont): every JavaScript activation record of    *)
(* the recursive interpreter (execProgram, execBlockStatement, a loop, a   *)
(* try statement, invokeFunction, ...) is one frame of kont, and a thrown  *)
(* JavaScript exception unwinds kont frame by frame.                       *)
(***************************************************************************)
EXTENDS Integers, Sequences, FiniteSets, TLC

\* ------------------------------------------------------------------------
\* Program constants
\* ------------------------------------------------------------------------
MAX_STEPS == 2000

TRUNCATE_AT == 1500

\* ------------------------------------------------------------------------
\* Bounds of the model
\* ------------------------------------------------------------------------
\* longest synchronous body of the generated async programs
MaxBody == 3

\* largest loop bound n of the closure-in-loop programs
MaxLoop == 3

\* frames of the interpreter's own recursion the host's call stack holds
\* before the host throws a RangeError
HostStackLimit == 10

\* ------------------------------------------------------------------------
\* JavaScript values
\* ------------------------------------------------------------------------
Undefined == [t |-> "undefined"]

Null == [t |-> "null"]

Num(n) == [t |-> "number", v |-> n]

Str(s) == [t |-> "string", v |-> s]

Bool(b) == [t |-> "boolean", v |-> b]

Arr(elems) == [t |-> "array", elems |-> elems]

\* class TracedFunction: a user function paired with its defining environment
TracedFunction(name, params, body, closureEnv) ==
  [t |-> "TracedFunction", name |-> name, params |-> params, body |-> body,
   closureEnv |-> closureEnv]

\* the record { __isPromise: true, __resolvedValue: v }
PromiseObj(v) == [t |-> "promise", resolvedValue |-> v]

\* handleNewPromise: promiseObj = { __isPromise: true, __resolvedValue: undefined };
\* id is the identity of the object, shared by the closures that refer to it
NewPromiseObj(id) == [t |-> "promise", resolvedValue |-> Undefined, id |-> id]

\* handleNewPromise: the native functions resolve and reject, closed over promiseObj
ResolveFn(name, id) == [t |-> "resolveFn", name |-> name, promise |-> id]

\* v is the promise object with that identity
IsPromiseRecord(v, id) ==
  IF v.t = "promise" THEN IF "id" \in DOMAIN v THEN v.id = id ELSE FALSE ELSE FALSE

\* resolve leaves the value unrecorded
SettlePromiseDropped(p, name, val) == p

\* resolveFn: promiseObj.__resolvedValue = val; rejectFn: promiseObj.__rejectedValue = reason
SettlePromise(p, name, val) ==
  IF name = "resolve" THEN [p EXCEPT !.resolvedValue = val]
  ELSE [f \in DOMAIN p \cup {"rejectedValue"} |-> IF f = "rejectedValue" THEN val ELSE p[f]]

\* getPromiseStub(): { __isPromiseConstructor: true }
getPromiseStub == [t |-> "PromiseConstructor"]

\* a native Error object (new Error(msg)); name is "Error" or "StepLimitError"
ErrorObj(name, message) == [t |-> "Error", name |-> name, message |-> message]

\* the sentinels ReturnSignal, BreakSignal, ContinueSignal
ReturnSignal(v) == [t |-> "ReturnSignal", value |-> v]

BreakSignal == [t |-> "BreakSignal"]

ContinueSignal == [t |-> "ContinueSignal"]

\* a number Math.random() returned: the fraction 0.d of the host's generator
Fraction(d) == [t |-> "fraction", v |-> d]

\* the fractions a call of Math.random() may return
RandomDraws == {Fraction(3), Fraction(7)}

\* JavaScript truthiness (if (!test) ...)
Truthy(v) ==
  CASE v.t = "boolean" -> v.v
    [] v.t = "number" -> v.v # 0
    [] v.t = "string" -> v.v # ""
    [] v.t \in {"undefined", "null"} -> FALSE
    [] OTHER -> TRUE

\* ------------------------------------------------------------------------
\* tracer.formatValue
\* ------------------------------------------------------------------------
RECURSIVE JoinWith(_, _)
JoinWith(strs, sep) ==
  IF Len(strs) = 0 THEN ""
  ELSE IF Len(strs) = 1 THEN strs[1]
  ELSE strs[1] \o sep \o JoinWith(Tail(strs), sep)

RECURSIVE formatValue(_)
formatValue(val) ==
  CASE val.t = "undefined" -> "undefined"
    [] val.t = "null" -> "null"
    [] val.t = "string" -> "\"" \o val.v \o "\""
    [] val.t = "number" -> ToString(val.v)
    [] val.t = "fraction" -> "0." \o ToString(val.v)
    [] val.t = "boolean" -> IF val.v THEN "true" ELSE "false"
    [] val.t = "array" ->
         "[" \o JoinWith([i \in 1..Len(val.elems) |-> formatValue(val.elems[i])], ", ") \o "]"
    [] val.t = "Error" -> "{}"
    [] val.t = "promise" ->
         "{__isPromise: true, __resolvedValue: " \o formatValue(val.resolvedValue)
           \o (IF "rejectedValue" \in DOMAIN val
               THEN ", __rejectedValue: " \o formatValue(val.rejectedValue) ELSE "")
           \o "}"
    [] val.t = "resolveFn" -> "f " \o val.name \o "()"
    [] val.t = "PromiseConstructor" -> "{__isPromiseConstructor: true}"
    [] val.t = "TracedFunction" -> "{name: \"" \o val.name \o "\", params: [...], body: {...}, ...}"
    [] OTHER -> "{}"

\* fmt: TracedFunction gets its own rendering, everything else formatValue
fmt(val) ==
  IF val.t = "TracedFunction" THEN "f " \o val.name \o "()" ELSE formatValue(val)

\* String(err) and err.message || String(err) for a thrown value that is
\* neither null nor undefined
StringOf(val) ==
  CASE val.t = "string" -> val.v
    [] val.t = "number" -> ToString(val.v)
    [] val.t = "boolean" -> IF val.v THEN "true" ELSE "false"
    [] val.t = "Error" -> val.name \o ": " \o val.message
    [] OTHER -> "[object Object]"

\* ------------------------------------------------------------------------
\* Syntax trees (the ESTree nodes acorn produces, restricted to the node
\* types and fields the interpreter reads)
\* ------------------------------------------------------------------------
NoNode == [type |-> "null"]

Literal(v) == [type |-> "Literal", value |-> v]

Identifier(name) == [type |-> "Identifier", name |-> name]

FunctionExpression(params, body) ==
  [type |-> "FunctionExpression", params |-> params, body |-> body]

ArrowFunctionExpression(params, body) ==
  [type |-> "ArrowFunctionExpression", params |-> params, body |-> body]

BinaryExpression(op, left, right) ==
  [type |-> "BinaryExpression", operator |-> op, left |-> left, right |-> right]

MemberExpression(object, property, computed) ==
  [type |-> "MemberExpression", object |-> object, property |-> property,
   computed |-> computed]

ArrayExpression(elements) == [type |-> "ArrayExpression", elements |-> elements]

CallExpression(callee, arguments) ==
  [type |-> "CallExpression", callee |-> callee, arguments |-> arguments]

UpdateExpression(op, name) ==
  [type |-> "UpdateExpression", operator |-> op, argument |-> Identifier(name)]

\* new callee(...arguments)
NewExpression(callee, arguments) ==
  [type |-> "NewExpression", callee |-> callee, arguments |-> arguments]

UnaryExpression(op, argument) ==
  [type |-> "UnaryExpression", operator |-> op, argument |-> argument]

ExpressionStatement(e) == [type |-> "ExpressionStatement", expression |-> e]

VariableDeclaration(kind, name, init) ==
  [type |-> "VariableDeclaration", kind |-> kind, name |-> name, init |-> init]

FunctionDeclaration(name, params, body) ==
  [type |-> "FunctionDeclaration", name |-> name, params |-> params, body |-> body]

BlockStatement(body) == [type |-> "BlockStatement", body |-> body]

WhileStatement(test, body) == [type |-> "WhileStatement", test |-> test, body |-> body]

ForStatement(init, test, update, body) ==
  [type |-> "ForStatement", init |-> init, test |-> test, update |-> update,
   body |-> body]

ForOfInStatement(type, kind, name, right, body) ==
  [type |-> type, left |-> [type |-> "VariableDeclaration", kind |-> kind, name |-> name],
   right |-> right, body |-> body]

ThrowStatement(argument) == [type |-> "ThrowStatement", argument |-> argument]

ReturnStatement(argument) == [type |-> "ReturnStatement", argument |-> argument]

BreakStatement == [type |-> "BreakStatement"]

ContinueStatement == [type |-> "ContinueStatement"]

IfStatement(test, consequent, alternate) ==
  [type |-> "IfStatement", test |-> test, consequent |-> consequent,
   alternate |-> alternate]

SwitchCase(test, consequent) ==
  [type |-> "SwitchCase", test |-> test, consequent |-> consequent]

SwitchStatement(discriminant, cases) ==
  [type |-> "SwitchStatement", discriminant |-> discriminant, cases |-> cases]

CatchClause(param, body) == [type |-> "CatchClause", param |-> param, body |-> body]

TryStatement(block, handler, finalizer) ==
  [type |-> "TryStatement", block |-> block, handler |-> handler,
   finalizer |-> finalizer]

\* console.log(args)
ConsoleLog(args) ==
  CallExpression(MemberExpression(Identifier("console"), Identifier("log"), FALSE), args)

\* setTimeout(fn, delay)
SetTimeoutCall(fn, delay) ==
  CallExpression(Identifier("setTimeout"), <<fn, Literal(Num(delay))>>)

\* Promise.resolve()
PromiseResolveCall ==
  CallExpression(MemberExpression(Identifier("Promise"), Identifier("resolve"), FALSE), <<>>)

\* obj.then(fn)
ThenCall(obj, fn) ==
  CallExpression(MemberExpression(obj, Identifier("then"), FALSE), <<fn>>)

\* ------------------------------------------------------------------------
\* Environments: an arena of frames, referred to by index (0 is no parent)
\* ------------------------------------------------------------------------
NoVars == [n \in {} |-> Undefined]

createEnv(parent, name, type) ==
  [name |-> name, type |-> type, vars |-> NoVars, parent |-> parent]

\* env.vars[name] = { value, kind }
envDefine(es, env, name, value, kind) ==
  [es EXCEPT ![env].vars =
     [n \in (DOMAIN es[env].vars) \cup {name} |->
        IF n = name THEN [value |-> value, kind |-> kind] ELSE es[env].vars[n]]]

\* the nearest frame of the chain from env that holds name, 0 when none does
RECURSIVE Holder(_, _, _)
Holder(es, env, name) ==
  IF env = 0 THEN 0
  ELSE IF name \in DOMAIN es[env].vars THEN env
  ELSE Holder(es, es[env].parent, name)

envSet(es, env, name, value) ==
  LET h == Holder(es, env, name) IN
    IF h # 0
    THEN [es EXCEPT ![h].vars[name].value = value]
    ELSE envDefine(es, env, name, value, "var")

envHas(es, env, name) == Holder(es, env, name) # 0

BuiltinGlobals ==
  {"undefined", "null", "true", "false", "NaN", "Infinity", "Math", "parseInt",
   "parseFloat", "isNaN", "isFinite", "String", "Number", "Boolean", "Array",
   "Object", "JSON"}

\* the result of an evaluation that may throw: ok and the value, or not ok
\* and the thrown value
Ok(v) == [ok |-> TRUE, v |-> v]

Thrown(v) == [ok |-> FALSE, v |-> v]

envGet(es, env, name) ==
  LET h == Holder(es, env, name) IN
    IF h # 0 THEN Ok(es[h].vars[name].value)
    ELSE IF name = "undefined" THEN Ok(Undefined)
    ELSE IF name = "null" THEN Ok(Null)
    ELSE IF name = "true" THEN Ok(Bool(TRUE))
    ELSE IF name = "false" THEN Ok(Bool(FALSE))
    ELSE IF name \in BuiltinGlobals THEN Ok([t |-> "native", name |-> name])
    ELSE Thrown(ErrorObj("Error", name \o " is not defined"))

\* a closure that keeps the global environment instead of the one it is made in
evalFunctionExpressionGlobal(node, env) ==
  TracedFunction("anonymous", node.params, node.body, 1)

\* new TracedFunction(name, node.params, node.body, env)
evalFunctionExpression(node, env) ==
  TracedFunction("anonymous", node.params, node.body, env)

\* the operators of evalBinaryExpression the programs use, on numbers
evalBinaryExpression(op, left, right) ==
  CASE op = "<" -> Bool(left.v < right.v)
    [] op = "+" -> Num(left.v + right.v)
    [] op = "===" -> Bool(left = right)
    [] OTHER -> Undefined

\* evalExpression on the expression forms that neither record a step nor
\* call into user code
RECURSIVE evalExpression(_, _, _)
evalExpression(es, node, env) ==
  CASE node.type = "null" -> Ok(Undefined)
    [] node.type = "Literal" -> Ok(node.value)
    [] node.type = "Identifier" -> envGet(es, env, node.name)
    [] node.type \in {"FunctionExpression", "ArrowFunctionExpression"} ->
         Ok(evalFunctionExpression(node, env))
    [] node.type = "BinaryExpression" ->
         LET l == evalExpression(es, node.left, env) IN
           IF ~l.ok THEN l
           ELSE LET r == evalExpression(es, node.right, env) IN
             IF ~r.ok THEN r ELSE Ok(evalBinaryExpression(node.operator, l.v, r.v))
    [] node.type = "ArrayExpression" ->
         \* the programs only use the empty array literal
         Ok(Arr(<<>>))
    [] node.type = "MemberExpression" ->
         \* evalMemberExpression: obj[prop] with a computed numeric index
         LET o == evalExpression(es, node.object, env) IN
           IF ~o.ok THEN o
           ELSE LET p == evalExpression(es, node.property, env) IN
             IF ~p.ok THEN p
             ELSE IF o.v.t = "array" /\ p.v.t = "number" /\ p.v.v + 1 \in 1..Len(o.v.elems)
                  THEN Ok(o.v.elems[p.v.v + 1])
                  ELSE Ok(Undefined)
    [] OTHER -> Ok(Undefined)

\* node.arguments.map(a => evalExpression(a, env)): the values, or the first throw
RECURSIVE evalArguments(_, _, _)
evalArguments(es, args, env) ==
  IF Len(args) = 0 THEN Ok(<<>>)
  ELSE LET a == evalExpression(es, args[1], env) IN
    IF ~a.ok THEN a
    ELSE LET rest == evalArguments(es, Tail(args), env) IN
      IF ~rest.ok THEN rest ELSE Ok(<<a.v>> \o rest.v)

\* ------------------------------------------------------------------------
\* The tracer (createTracer): a record of its closure variables.
\* The array steps holds references to step objects: objects lists the step
\* objects created so far, step objects of equal content sharing one entry,
\* and steps holds their indices in it.
\* ------------------------------------------------------------------------
createTracer ==
  [steps |-> <<>>, objects |-> <<>>, callStack |-> <<>>, consoleOutput |-> <<>>, webApis |-> <<>>,
   callbackQueue |-> <<>>, microtaskQueue |-> <<>>, memoryHeap |-> <<>>,
   heapIdCounter |-> 1, eventLoopPhase |-> "executing"]

\* steps.push(step)
pushStep(tr, step) ==
  LET found == {i \in 1..Len(tr.objects) : tr.objects[i] = step} IN
    IF found = {}
    THEN [tr EXCEPT !.objects = Append(@, step), !.steps = Append(@, Len(tr.objects) + 1)]
    ELSE [tr EXCEPT !.steps = Append(@, CHOOSE i \in found : TRUE)]

\* snapshot() spread into the step object pushed by addStep
addStep(tr, type, description) ==
  pushStep(tr,
     [type |-> type, description |-> description, callStack |-> tr.callStack,
      consoleOutput |-> tr.consoleOutput, webApis |-> tr.webApis,
      callbackQueue |-> tr.callbackQueue, microtaskQueue |-> tr.microtaskQueue,
      memoryHeap |-> tr.memoryHeap, eventLoopPhase |-> tr.eventLoopPhase])

\* the step objects a steps array refers to, in the array's order
StepsOf(tr, steps) == [k \in 1..Len(steps) |-> tr.objects[steps[k]]]

pushCall(tr, name) == [tr EXCEPT !.callStack = Append(@, name)]

popCall(tr) ==
  [tr EXCEPT !.callStack = IF Len(@) = 0 THEN @ ELSE SubSeq(@, 1, Len(@) - 1)]

\* a console array that the recorded steps share with the tracer: the push
\* shows in every step already recorded
logConsoleShared(tr, args) ==
  LET formatted == JoinWith([i \in 1..Len(args) |-> formatValue(args[i])], " ") IN
    [tr EXCEPT !.consoleOutput = Append(@, formatted),
               !.objects = [i \in 1..Len(@) |->
                              [@[i] EXCEPT !.consoleOutput = Append(@, formatted)]]]

logConsole(tr, args) ==
  [tr EXCEPT !.consoleOutput =
     Append(@, JoinWith([i \in 1..Len(args) |-> formatValue(args[i])], " "))]

addWebApi(tr, id, type, label, delay) ==
  [tr EXCEPT !.webApis =
     Append(@, [id |-> id, type |-> type, label |-> label, delay |-> delay,
                startStep |-> Len(tr.steps)])]

removeWebApi(tr, id) ==
  [tr EXCEPT !.webApis = SelectSeq(@, LAMBDA w : w.id # id)]

addToCallbackQueue(tr, label) == [tr EXCEPT !.callbackQueue = Append(@, label)]

removeFromCallbackQueue(tr) ==
  [tr EXCEPT !.callbackQueue = IF Len(@) = 0 THEN @ ELSE Tail(@)]

addToMicrotaskQueue(tr, label) == [tr EXCEPT !.microtaskQueue = Append(@, label)]

removeFromMicrotaskQueue(tr) ==
  [tr EXCEPT !.microtaskQueue = IF Len(@) = 0 THEN @ ELSE Tail(@)]

setEventLoopPhase(tr, phase) == [tr EXCEPT !.eventLoopPhase = phase]

allocateHeapSameId(tr, value, label) ==
  [tr EXCEPT !.memoryHeap =
             Append(@, [id |-> tr.heapIdCounter, label |-> label,
                        value |-> formatValue(value),
                        type |-> IF value.t = "array" THEN "array" ELSE "object"])]

allocateHeap(tr, value, label) ==
  [tr EXCEPT !.memoryHeap =
             Append(@, [id |-> tr.heapIdCounter, label |-> label,
                        value |-> formatValue(value),
                        type |-> IF value.t = "array" THEN "array" ELSE "object"]),
             !.heapIdCounter = @ + 1]

\* ------------------------------------------------------------------------
\* Sources handed to executeCode
\* ------------------------------------------------------------------------
\* A callback that logs v: an arrow function with an expression body, or a
\* function expression with a block body
LogCallback(style, v) ==
  IF style = "arrow"
  THEN ArrowFunctionExpression(<<>>, ConsoleLog(<<Literal(v)>>))
  ELSE FunctionExpression(<<>>, BlockStatement(<<ExpressionStatement(ConsoleLog(<<Literal(v)>>))>>))

AsyncOps == {"log", "timer", "then", "chain"}

\* the statement of an async program at position p
AsyncStmt(op, p, style) ==
  CASE op = "log" -> ExpressionStatement(ConsoleLog(<<Literal(Num(p))>>))
    [] op = "timer" -> ExpressionStatement(SetTimeoutCall(LogCallback(style, Num(p)), 0))
    [] op = "then" ->
         ExpressionStatement(ThenCall(PromiseResolveCall, LogCallback(style, Num(p))))
    [] op = "chain" ->
         ExpressionStatement(ThenCall(ThenCall(PromiseResolveCall, LogCallback(style, Num(p))),
                                      LogCallback(style, Num(p + 10))))

AsyncProgram(ops, style) == [p \in 1..Len(ops) |-> AsyncStmt(ops[p], p, style)]

AsyncOpSeqs == UNION {[1..n -> AsyncOps] : n \in 1..MaxBody}

\* console.log(1); setTimeout(()=>console.log(2),0);
\* Promise.resolve().then(()=>console.log(3)); console.log(4);
MixedAsyncOps == <<"log", "timer", "then", "log">>

\* Promise.resolve().then(()=>console.log("a")).then(()=>console.log("b")); console.log("c");
ChainProgram ==
  <<ExpressionStatement(ThenCall(ThenCall(PromiseResolveCall, LogCallback("arrow", Str("a"))),
                                 LogCallback("arrow", Str("b")))),
    ExpressionStatement(ConsoleLog(<<Literal(Str("c"))>>))>>

\* the example event-loop-deep-dive: a timer whose callback registers a .then,
\* a chain of two .then, and two synchronous logs
DeepDiveProgram ==
  <<ExpressionStatement(ConsoleLog(<<Literal(Str("script start"))>>)),
    ExpressionStatement(SetTimeoutCall(
      FunctionExpression(<<>>, BlockStatement(
        <<ExpressionStatement(ConsoleLog(<<Literal(Str("setTimeout 1"))>>)),
          ExpressionStatement(ThenCall(PromiseResolveCall,
            LogCallback("function", Str("promise inside timeout"))))>>)), 0)),
    ExpressionStatement(ThenCall(ThenCall(PromiseResolveCall,
                                          LogCallback("function", Str("promise 1"))),
                                 LogCallback("function", Str("promise 2")))),
    ExpressionStatement(ConsoleLog(<<Literal(Str("script end"))>>))>>

\* function () { console.log(v); rest }
LogThen(v, rest) ==
  FunctionExpression(<<>>, BlockStatement(
    <<ExpressionStatement(ConsoleLog(<<Literal(Str(v))>>))>> \o rest))

\* Promise.resolve().then(fn);
ThenStmt(fn) == ExpressionStatement(ThenCall(PromiseResolveCall, fn))

\* let q = [];
\* setTimeout(function () { console.log("t1");
\*   Promise.resolve().then(function () { console.log("t1 m");
\*     Promise.resolve().then(function () { console.log("t1 mm") }) }) }, 100);
\* setTimeout(function () { console.log("t2") }, 0);
\* Promise.resolve().then(function () { console.log("m1");
\*   Promise.resolve().then(function () { console.log("m2") }) });
\* console.log("end")
NestedAsyncProgram ==
  <<VariableDeclaration("let", "q", ArrayExpression(<<>>)),
    ExpressionStatement(SetTimeoutCall(
      LogThen("t1", <<ThenStmt(LogThen("t1 m", <<ThenStmt(LogThen("t1 mm", <<>>))>>))>>),
      100)),
    ExpressionStatement(SetTimeoutCall(LogThen("t2", <<>>), 0)),
    ThenStmt(LogThen("m1", <<ThenStmt(LogThen("m2", <<>>))>>)),
    ExpressionStatement(ConsoleLog(<<Literal(Str("end"))>>))>>

\* const f = () => f(); f()
RecursionProgram ==
  <<VariableDeclaration("const", "f",
      ArrowFunctionExpression(<<>>, CallExpression(Identifier("f"), <<>>))),
    ExpressionStatement(CallExpression(Identifier("f"), <<>>))>>

\* setTimeout(function () { console.log("a");
\*   setTimeout(function () { console.log("b") }, 0) }, 0)
NestedTimerProgram ==
  <<ExpressionStatement(SetTimeoutCall(
      LogThen("a", <<ExpressionStatement(SetTimeoutCall(LogThen("b", <<>>), 0))>>), 0))>>

\* while (true) {}
WhileTrueProgram == <<WhileStatement(Literal(Bool(TRUE)), BlockStatement(<<>>))>>

\* while (true) while (false) {}
NestedWhileProgram ==
  <<WhileStatement(Literal(Bool(TRUE)),
                   WhileStatement(Literal(Bool(FALSE)), BlockStatement(<<>>)))>>

\* var x = 0; x++; console.log(x)
UpdateProgram ==
  <<VariableDeclaration("var", "x", Literal(Num(0))),
    ExpressionStatement(UpdateExpression("++", "x")),
    ExpressionStatement(ConsoleLog(<<Identifier("x")>>))>>

\* for (;;) {}
ForEverProgram == <<ForStatement(NoNode, NoNode, NoNode, BlockStatement(<<>>))>>

\* [kind] funcs = []; for ([kind] i = 0; i < n; i++) { funcs.push(function(){ console.log(i) }) }
\* funcs[0](); ... funcs[n-1]();
ClosureLoopProgram(kind, n) ==
  <<VariableDeclaration("var", "funcs", ArrayExpression(<<>>)),
    ForStatement(VariableDeclaration(kind, "i", Literal(Num(0))),
                 BinaryExpression("<", Identifier("i"), Literal(Num(n))),
                 UpdateExpression("++", "i"),
                 BlockStatement(<<ExpressionStatement(
                   CallExpression(MemberExpression(Identifier("funcs"), Identifier("push"), FALSE),
                     <<FunctionExpression(<<>>, BlockStatement(
                         <<ExpressionStatement(ConsoleLog(<<Identifier("i")>>))>>))>>))>>))>>
  \o [k \in 1..n |->
        ExpressionStatement(CallExpression(
          MemberExpression(Identifier("funcs"), Literal(Num(k - 1)), TRUE), <<>>))]

\* for (var i = 0; i < n; i++) {}
\* console.log("var i after loop:", i)
VarVsLetProgram(n) ==
  <<ForStatement(VariableDeclaration("var", "i", Literal(Num(0))),
                 BinaryExpression("<", Identifier("i"), Literal(Num(n))),
                 UpdateExpression("++", "i"),
                 BlockStatement(<<>>)),
    ExpressionStatement(ConsoleLog(<<Literal(Str("var i after loop:")), Identifier("i")>>))>>

\* function makeCounter() { let count = 0; return function() { count++; return count } }
\* function show() { console.log(secret) }
\* function caller() { let secret = 1; show() }
\* let counter = makeCounter(); let a = counter(); let b = counter()
\* console.log(a, b)
\* try { caller() } catch (e) { console.log("hidden") }
CounterClosureProgram ==
  <<FunctionDeclaration("makeCounter", <<>>, BlockStatement(
      <<VariableDeclaration("let", "count", Literal(Num(0))),
        ReturnStatement(FunctionExpression(<<>>, BlockStatement(
          <<ExpressionStatement(UpdateExpression("++", "count")),
            ReturnStatement(Identifier("count"))>>)))>>)),
    FunctionDeclaration("show", <<>>, BlockStatement(
      <<ExpressionStatement(ConsoleLog(<<Identifier("secret")>>))>>)),
    FunctionDeclaration("caller", <<>>, BlockStatement(
      <<VariableDeclaration("let", "secret", Literal(Num(1))),
        ExpressionStatement(CallExpression(Identifier("show"), <<>>))>>)),
    VariableDeclaration("let", "counter", CallExpression(Identifier("makeCounter"), <<>>)),
    VariableDeclaration("let", "a", CallExpression(Identifier("counter"), <<>>)),
    VariableDeclaration("let", "b", CallExpression(Identifier("counter"), <<>>)),
    ExpressionStatement(ConsoleLog(<<Identifier("a"), Identifier("b")>>)),
    TryStatement(BlockStatement(
                   <<ExpressionStatement(CallExpression(Identifier("caller"), <<>>))>>),
                 CatchClause("e", BlockStatement(
                   <<ExpressionStatement(ConsoleLog(<<Literal(Str("hidden"))>>))>>)),
                 NoNode)>>

\* the items the programs iterate over
Items == <<Num(10), Num(20)>>

\* let items = []; items.push(10, 20); let funcs = []
\* for (const item of items) { funcs.push(function() { console.log(item) }) }
\*   (or: for (const item in items) ...)
\* funcs[0](); funcs[1]()
ForOfProgram(type) ==
  <<VariableDeclaration("let", "items", ArrayExpression(<<>>)),
    ExpressionStatement(CallExpression(
      MemberExpression(Identifier("items"), Identifier("push"), FALSE),
      [i \in 1..Len(Items) |-> Literal(Items[i])])),
    VariableDeclaration("let", "funcs", ArrayExpression(<<>>)),
    ForOfInStatement(type, "const", "item", Identifier("items"),
      BlockStatement(<<ExpressionStatement(
        CallExpression(MemberExpression(Identifier("funcs"), Identifier("push"), FALSE),
          <<FunctionExpression(<<>>, BlockStatement(
              <<ExpressionStatement(ConsoleLog(<<Identifier("item")>>))>>))>>))>>))>>
  \o [k \in 1..Len(Items) |->
        ExpressionStatement(CallExpression(
          MemberExpression(Identifier("funcs"), Literal(Num(k - 1)), TRUE), <<>>))]

\* console.log("1 - Start")
\* let p = new Promise(function (resolve) { console.log("2 - Promise executor"); resolve("done") })
\* p.then(function (val) { console.log("3 - Then:", val) })
\* console.log("4 - End")
PromiseBasicsProgram ==
  <<ExpressionStatement(ConsoleLog(<<Literal(Str("1 - Start"))>>)),
    VariableDeclaration("let", "p", NewExpression(Identifier("Promise"),
      <<FunctionExpression(<<"resolve">>, BlockStatement(
          <<ExpressionStatement(ConsoleLog(<<Literal(Str("2 - Promise executor"))>>)),
            ExpressionStatement(CallExpression(Identifier("resolve"),
                                               <<Literal(Str("done"))>>))>>))>>)),
    ExpressionStatement(ThenCall(Identifier("p"),
      FunctionExpression(<<"val">>, BlockStatement(
        <<ExpressionStatement(ConsoleLog(<<Literal(Str("3 - Then:")), Identifier("val")>>))>>)))),
    ExpressionStatement(ConsoleLog(<<Literal(Str("4 - End"))>>))>>

\* let p = new Promise(function (resolve, reject) {
\*   reject("no"); setTimeout(function () { resolve("late") }, 0) })
\* console.log(p); setTimeout(function () { console.log(p) }, 0)
PromiseSettleProgram ==
  <<VariableDeclaration("let", "p", NewExpression(Identifier("Promise"),
      <<FunctionExpression(<<"resolve", "reject">>, BlockStatement(
          <<ExpressionStatement(CallExpression(Identifier("reject"), <<Literal(Str("no"))>>)),
            ExpressionStatement(SetTimeoutCall(
              FunctionExpression(<<>>, BlockStatement(
                <<ExpressionStatement(CallExpression(Identifier("resolve"),
                                                     <<Literal(Str("late"))>>))>>)), 0))>>))>>)),
    ExpressionStatement(ConsoleLog(<<Identifier("p")>>)),
    ExpressionStatement(SetTimeoutCall(
      FunctionExpression(<<>>, BlockStatement(
        <<ExpressionStatement(ConsoleLog(<<Identifier("p")>>))>>)), 0))>>

\* Promise.resolve().then(null); console.log("s")
ThenNullProgram ==
  <<ThenStmt(Literal(Null)),
    ExpressionStatement(ConsoleLog(<<Literal(Str("s"))>>))>>

\* function f() { 5 }  let r = f(); console.log(r)
FallOffProgram ==
  <<FunctionDeclaration("f", <<>>, BlockStatement(<<ExpressionStatement(Literal(Num(5)))>>)),
    VariableDeclaration("let", "r", CallExpression(Identifier("f"), <<>>)),
    ExpressionStatement(ConsoleLog(<<Identifier("r")>>))>>

\* console.log(v); let r = f(1); console.log(r); var v = 5
\* function f(x) { console.log(x)
\*                  { console.log(w); g(); var w = 2; function g() { console.log("g") } }
\*                  var x = 7; return x }
HoistingProgram ==
  <<ExpressionStatement(ConsoleLog(<<Identifier("v")>>)),
    VariableDeclaration("let", "r", CallExpression(Identifier("f"), <<Literal(Num(1))>>)),
    ExpressionStatement(ConsoleLog(<<Identifier("r")>>)),
    VariableDeclaration("var", "v", Literal(Num(5))),
    FunctionDeclaration("f", <<"x">>, BlockStatement(
      <<ExpressionStatement(ConsoleLog(<<Identifier("x")>>)),
        BlockStatement(
          <<ExpressionStatement(ConsoleLog(<<Identifier("w")>>)),
            ExpressionStatement(CallExpression(Identifier("g"), <<>>)),
            VariableDeclaration("var", "w", Literal(Num(2))),
            FunctionDeclaration("g", <<>>, BlockStatement(
              <<ExpressionStatement(ConsoleLog(<<Literal(Str("g"))>>))>>))>>),
        VariableDeclaration("var", "x", Literal(Num(7))),
        ReturnStatement(Identifier("x"))>>))>>

\* let x = Math.random()
RandomProgram ==
  <<VariableDeclaration("let", "x",
      CallExpression(MemberExpression(Identifier("Math"), Identifier("random"), FALSE),
                     <<>>))>>

\* values a program may throw
ThrowValues == {Null, Undefined, Str("boom"), Num(7)}

\* console.log(1); throw v; console.log(2)
ThrowProgram(v) ==
  <<ExpressionStatement(ConsoleLog(<<Literal(Num(1))>>)),
    ThrowStatement(Literal(v)),
    ExpressionStatement(ConsoleLog(<<Literal(Num(2))>>))>>

\* console.log(1); console.log(missing); console.log(2)
UnboundProgram ==
  <<ExpressionStatement(ConsoleLog(<<Literal(Num(1))>>)),
    ExpressionStatement(ConsoleLog(<<Identifier("missing")>>)),
    ExpressionStatement(ConsoleLog(<<Literal(Num(2))>>))>>

\* let f = 1; f(); console.log(2)
NotFunctionProgram ==
  <<VariableDeclaration("let", "f", Literal(Num(1))),
    ExpressionStatement(CallExpression(Identifier("f"), <<>>)),
    ExpressionStatement(ConsoleLog(<<Literal(Num(2))>>))>>

\* function g() { throw v }  setTimeout(g, 0); try { g() } catch (e) { console.log(e) }
\* finally { console.log("f") }
\* the throw is caught in the synchronous body and uncaught in the timer callback
TryProgram(v) ==
  <<FunctionDeclaration("g", <<>>, BlockStatement(<<ThrowStatement(Literal(v))>>)),
    ExpressionStatement(SetTimeoutCall(Identifier("g"), 0)),
    TryStatement(BlockStatement(<<ExpressionStatement(CallExpression(Identifier("g"), <<>>))>>),
                 CatchClause("e", BlockStatement(
                   <<ExpressionStatement(ConsoleLog(<<Identifier("e")>>))>>)),
                 BlockStatement(<<ExpressionStatement(ConsoleLog(<<Literal(Str("f"))>>))>>))>>

\* try { console.log(1) } finally { console.log(2) }
\* try { throw "x" } finally { console.log(3) }
TryFinallyProgram ==
  <<TryStatement(BlockStatement(<<ExpressionStatement(ConsoleLog(<<Literal(Num(1))>>))>>),
                 NoNode,
                 BlockStatement(<<ExpressionStatement(ConsoleLog(<<Literal(Num(2))>>))>>)),
    TryStatement(BlockStatement(<<ThrowStatement(Literal(Str("x")))>>),
                 NoNode,
                 BlockStatement(<<ExpressionStatement(ConsoleLog(<<Literal(Num(3))>>))>>))>>

\* try { throw "x" } catch (e) { throw e }
TryRethrowProgram ==
  <<TryStatement(BlockStatement(<<ThrowStatement(Literal(Str("x")))>>),
                 CatchClause("e", BlockStatement(<<ThrowStatement(Identifier("e"))>>)),
                 NoNode)>>

\* try { x } catch (e) { console.log("caught") }
\* console.log("after")
TryUnboundProgram ==
  <<TryStatement(BlockStatement(<<ExpressionStatement(Identifier("x"))>>),
                 CatchClause("e", BlockStatement(
                   <<ExpressionStatement(ConsoleLog(<<Literal(Str("caught"))>>))>>)),
                 NoNode),
    ExpressionStatement(ConsoleLog(<<Literal(Str("after"))>>))>>

\* function f() { try { return 1 } finally { console.log("f") } }
\* function g() { try { throw "x" } catch (e) { throw e } finally { console.log("g") } }
\* let r = f(); console.log(r)
\* try { g() } catch (e) { console.log(e) } finally { console.log("done") }
FinallyProgram ==
  <<FunctionDeclaration("f", <<>>, BlockStatement(
      <<TryStatement(BlockStatement(<<ReturnStatement(Literal(Num(1)))>>),
                     NoNode,
                     BlockStatement(<<ExpressionStatement(ConsoleLog(<<Literal(Str("f"))>>))>>))>>)),
    FunctionDeclaration("g", <<>>, BlockStatement(
      <<TryStatement(BlockStatement(<<ThrowStatement(Literal(Str("x")))>>),
                     CatchClause("e", BlockStatement(<<ThrowStatement(Identifier("e"))>>)),
                     BlockStatement(<<ExpressionStatement(ConsoleLog(<<Literal(Str("g"))>>))>>))>>)),
    VariableDeclaration("let", "r", CallExpression(Identifier("f"), <<>>)),
    ExpressionStatement(ConsoleLog(<<Identifier("r")>>)),
    TryStatement(BlockStatement(<<ExpressionStatement(CallExpression(Identifier("g"), <<>>))>>),
                 CatchClause("e", BlockStatement(
                   <<ExpressionStatement(ConsoleLog(<<Identifier("e")>>))>>)),
                 BlockStatement(<<ExpressionStatement(ConsoleLog(<<Literal(Str("done"))>>))>>))>>

\* function g() { try { while (true) {} } catch (e) { console.log("c") }
\*                finally { console.log("f") } }
\* let t = typeof g()
TypeofLoopProgram ==
  <<FunctionDeclaration("g", <<>>, BlockStatement(
      <<TryStatement(
          BlockStatement(<<WhileStatement(Literal(Bool(TRUE)), BlockStatement(<<>>))>>),
          CatchClause("e", BlockStatement(
            <<ExpressionStatement(ConsoleLog(<<Literal(Str("c"))>>))>>)),
          BlockStatement(<<ExpressionStatement(ConsoleLog(<<Literal(Str("f"))>>))>>))>>)),
    VariableDeclaration("let", "t",
      UnaryExpression("typeof", CallExpression(Identifier("g"), <<>>)))>>

\* the statements a break or a continue is nested in, inside a loop body
Wraps == {"if", "block", "try", "catch", "switch"}

\* if (true) { s }   { s }   try { s } catch (e) {}   try { throw 1 } catch (e) { s }
\* switch (0) { case 0: s }
Wrap(wrap, s) ==
  CASE wrap = "if" -> IfStatement(Literal(Bool(TRUE)), BlockStatement(<<s>>), NoNode)
    [] wrap = "block" -> BlockStatement(<<s>>)
    [] wrap = "try" ->
         TryStatement(BlockStatement(<<s>>), CatchClause("e", BlockStatement(<<>>)), NoNode)
    [] wrap = "catch" ->
         TryStatement(BlockStatement(<<ThrowStatement(Literal(Num(1)))>>),
                      CatchClause("e", BlockStatement(<<s>>)), NoNode)
    [] wrap = "switch" ->
         SwitchStatement(Literal(Num(0)), <<SwitchCase(Literal(Num(0)), <<s>>)>>)

\* for (let i = 0; i < 2; i++) { console.log("a"); WRAP(s); console.log("b") }
\* console.log("end")
ControlProgram(wrap, s) ==
  <<ForStatement(VariableDeclaration("let", "i", Literal(Num(0))),
                 BinaryExpression("<", Identifier("i"), Literal(Num(2))),
                 UpdateExpression("++", "i"),
                 BlockStatement(<<ExpressionStatement(ConsoleLog(<<Literal(Str("a"))>>)),
                                  Wrap(wrap, s),
                                  ExpressionStatement(ConsoleLog(<<Literal(Str("b"))>>))>>)),
    ExpressionStatement(ConsoleLog(<<Literal(Str("end"))>>))>>

ControlPrograms ==
  {ControlProgram(wrap, s) : wrap \in Wraps, s \in {BreakStatement, ContinueStatement}}

\* function h(n) { let i = 0; while (true) { i++; if (i === n) { return i } else { continue } } }
\* let r = h(2); console.log(r)
\* switch (r) { case 1: console.log("one"); case 2: console.log("two"); break;
\*              default: console.log("other") }
ReturnInLoopProgram ==
  <<FunctionDeclaration("h", <<"n">>, BlockStatement(
      <<VariableDeclaration("let", "i", Literal(Num(0))),
        WhileStatement(Literal(Bool(TRUE)), BlockStatement(
          <<ExpressionStatement(UpdateExpression("++", "i")),
            IfStatement(BinaryExpression("===", Identifier("i"), Identifier("n")),
                        BlockStatement(<<ReturnStatement(Identifier("i"))>>),
                        BlockStatement(<<ContinueStatement>>))>>))>>)),
    VariableDeclaration("let", "r", CallExpression(Identifier("h"), <<Literal(Num(2))>>)),
    ExpressionStatement(ConsoleLog(<<Identifier("r")>>)),
    SwitchStatement(Identifier("r"),
      <<SwitchCase(Literal(Num(1)), <<ExpressionStatement(ConsoleLog(<<Literal(Str("one"))>>))>>),
        SwitchCase(Literal(Num(2)), <<ExpressionStatement(ConsoleLog(<<Literal(Str("two"))>>)),
                                      BreakStatement>>),
        SwitchCase(NoNode, <<ExpressionStatement(ConsoleLog(<<Literal(Str("other"))>>))>>)>>)>>

FixedPrograms ==
  {ChainProgram, DeepDiveProgram, WhileTrueProgram, UnboundProgram, NotFunctionProgram,
   NestedWhileProgram, ForEverProgram, TryFinallyProgram, TryRethrowProgram, UpdateProgram,
   RandomProgram, NestedAsyncProgram, RecursionProgram, TryUnboundProgram,
   NestedTimerProgram, FinallyProgram, ReturnInLoopProgram, TypeofLoopProgram,
   HoistingProgram, FallOffProgram, ThenNullProgram, PromiseBasicsProgram,
   PromiseSettleProgram,
   CounterClosureProgram,
   AsyncProgram(MixedAsyncOps, "arrow")}
  \cup ControlPrograms
  \cup {VarVsLetProgram(n) : n \in 1..MaxLoop}
  \cup {ForOfProgram(type) : type \in {"ForOfStatement", "ForInStatement"}}
  \cup {ThrowProgram(v) : v \in ThrowValues}
  \cup {TryProgram(v) : v \in {Null, Str("boom")}}
  \cup {ClosureLoopProgram(kind, n) : kind \in {"let", "var"}, n \in 1..MaxLoop}

Programs ==
  FixedPrograms \cup {AsyncProgram(ops, style) : ops \in AsyncOpSeqs, style \in {"arrow", "function"}}

\* positions acorn may report for a syntax error (err.loc: line from 1, column from 0)
ErrorLocs == {[line |-> l, column |-> c] : l \in 1..2, c \in 0..1}

\* acorn.parse's outcome for a source text: a Program node or a SyntaxError
\* empty tells whether the text has no character at all
ParsedOk(body) == [ok |-> TRUE, body |-> body, empty |-> FALSE]

ParsedError(loc) ==
  [ok |-> FALSE, loc |-> loc, empty |-> FALSE,
   message |-> "Unexpected token (" \o ToString(loc.line) \o ":" \o ToString(loc.column) \o ")"]

\* A string source: leading white space, the text between (given by
\* acorn's outcome for the whole string), trailing white space. text is NoText
\* for a string that holds nothing but the white space: acorn parses such a
\* string to a Program with an empty body.
NoText == [ok |-> TRUE, body |-> <<>>, empty |-> TRUE]

StringSource(lead, text, trail) ==
  [typeof |-> "string", lead |-> lead, text |-> text, trail |-> trail]

\* A source that is not a string: null, undefined, a number, an object
NonStringSource(typeof, falsy) == [typeof |-> typeof, falsy |-> falsy]

WhiteSpace == {"", " ", "\n \t"}

EmptySources ==
  {StringSource(l, NoText, "") : l \in WhiteSpace}
  \cup {NonStringSource("object", TRUE), NonStringSource("undefined", TRUE),
        NonStringSource("number", TRUE), NonStringSource("number", FALSE),
        NonStringSource("object", FALSE)}

MalformedSources == {StringSource(l, ParsedError(loc), "") : l \in {"", " "}, loc \in ErrorLocs}

Sources ==
  EmptySources
  \cup {StringSource("", ParsedOk(b), "") : b \in Programs}
  \cup {StringSource(" ", ParsedOk(ChainProgram), "\n \t")}
  \cup MalformedSources

\* !code
Falsy(src) ==
  IF src.typeof = "string"
  THEN src.lead = "" /\ src.text.empty /\ src.trail = ""
  ELSE src.falsy

\* code.length === 0, the white space not trimmed
LengthIsZero(src) == src.lead = "" /\ src.text.empty /\ src.trail = ""

\* code.trim().length === 0
TrimIsEmpty(src) == src.text.empty

\* !code || typeof code !== 'string' || code.trim().length === 0
IsEmptyInput(src) ==
  IF Falsy(src) THEN TRUE
  ELSE IF src.typeof # "string" THEN TRUE
  ELSE TrimIsEmpty(src)

\* `Syntax Error on line ${line}, column ${col}: ${msg}` with col = err.loc.column + 1
SyntaxErrorMessage(loc) ==
  "Syntax Error on line " \o ToString(loc.line) \o ", column "
  \o ToString(loc.column + 1) \o ": Unexpected token"

\* parseCode: acorn's tree, or the friendly Error built from acorn's error
\* (1-based column, acorn's own "(line:col)" suffix stripped from the message)
parseCode(src) ==
  IF src.text.ok THEN Ok(src.text.body)
  ELSE Thrown(ErrorObj("Error", SyntaxErrorMessage(src.text.loc)))

\* ------------------------------------------------------------------------
\* State
\* ------------------------------------------------------------------------
VARIABLES
  app,               \* App.jsx: the state of the component (trace, currentStepIndex, isPlaying)
  visualizer,        \* useVisualizer.js: the state of the hook (steps, currentStep, isPlaying)
  code,              \* the argument of executeCode
  pc,                \* where the driver (executeCode, generateTrace, processAsyncQueues) stands
  ctl,               \* what the interpreter does next: exec/eval a node, return a value, throw
  kont,              \* the interpreter's activation records, innermost last
  stepCount,         \* generateTrace: let stepCount
  webApiIdCounter,   \* generateTrace: let webApiIdCounter
  pendingTimers,     \* generateTrace: const pendingTimers
  pendingMicrotasks, \* generateTrace: const pendingMicrotasks
  envs,              \* every environment created by createEnv, by index
  tracer,            \* the tracer's closure variables
  err,               \* generateTrace: the parameter of its catch (err), NoErr before
  timersToProcess,   \* processAsyncQueues: const timersToProcess
  moveIdx,           \* processAsyncQueues: position of the phase-2 for...of loop
  result,            \* what executeCode returned, NoResult while it runs
  previous,          \* what the previous call of executeCode on this source returned
  calls              \* number of completed calls of executeCode

vars ==
  <<code, pc, ctl, kont, stepCount, webApiIdCounter, pendingTimers, pendingMicrotasks,
    envs, tracer, err, timersToProcess, moveIdx, result, previous, calls, app, visualizer>>

\* number of times executeCode is called on the same source
MaxCalls == 2

\* longest trace handed to the playback controllers
MaxTrace == 3

\* App.jsx: useState(false) isPlaying, useState(0) currentStepIndex, useState([]) trace
AppInitial == [trace |-> <<>>, currentStepIndex |-> 0, isPlaying |-> FALSE]

\* useVisualizer.js: useState([]) steps, useState(0) currentStep, useState(false) isPlaying
VisualizerInitial == [steps |-> <<>>, currentStep |-> 0, isPlaying |-> FALSE]

NoResult == [none |-> TRUE]

NoErr == [t |-> "none"]

Result(steps, error) == [steps |-> steps, error |-> error]

None == [k |-> "none"]

Exec(node, env) == [k |-> "exec", node |-> node, env |-> env]

Eval(node, env) == [k |-> "eval", node |-> node, env |-> env]

Ret(v) == [k |-> "ret", v |-> v]

Throw(v) == [k |-> "throw", v |-> v]

\* the head of a loop's while (true), for the loop frame on top of kont
Iter == [k |-> "iter"]

Top == kont[Len(kont)]

Pop == SubSeq(kont, 1, Len(kont) - 1)

TopIs(k) == Len(kont) > 0 /\ Top.k = k

IsSignal(v) == v.t \in {"ReturnSignal", "BreakSignal", "ContinueSignal"}

Init ==
  /\ code \in Sources
  /\ pc = "executeCode"
  /\ ctl = None
  /\ kont = <<>>
  /\ stepCount = 0
  /\ webApiIdCounter = 1
  /\ pendingTimers = <<>>
  /\ pendingMicrotasks = <<>>
  /\ envs = <<>>
  /\ tracer = createTracer
  /\ err = NoErr
  /\ timersToProcess = <<>>
  /\ moveIdx = 1
  /\ result = NoResult
  /\ previous = NoResult
  /\ calls = 0
  /\ app = AppInitial
  /\ visualizer = VisualizerInitial

\* ------------------------------------------------------------------------
\* checkStepLimit
\* ------------------------------------------------------------------------
StepLimitMessage ==
  "Execution limit reached (" \o ToString(MAX_STEPS)
  \o " steps). Possible infinite loop or code too complex."

StepLimitError == ErrorObj("StepLimitError", StepLimitMessage)

\* the interpreter and the event loop stand between two callbacks
AtLoop == kont = <<>> /\ ctl.k \in {"none", "ret"}

\* the places that call checkStepLimit: execStatement, the head of every
\* loop iteration, and the loops of processAsyncQueues
AtCheckStepLimit ==
  \/ ctl.k = "exec"
  \/ ctl.k = "iter" /\ ~(TopIs("forof") /\ Top.items = <<>>)
  \/ pc \in {"phase1", "drain"} /\ AtLoop /\ Len(pendingMicrotasks) > 0
  \/ pc = "phase2" /\ moveIdx <= Len(timersToProcess)
  \/ pc = "phase3" /\ AtLoop /\ Len(tracer.callbackQueue) > 0

\* the comparison off by one: stepCount > MAX_STEPS
LimitReachedLate == stepCount > MAX_STEPS

\* if (stepCount >= MAX_STEPS) throw new StepLimitError(...)
LimitReached == stepCount >= MAX_STEPS

CheckStepLimitFail ==
  /\ AtCheckStepLimit
  /\ LimitReached
  /\ ctl' = Throw(StepLimitError)
  /\ UNCHANGED <<code, pc, kont, stepCount, webApiIdCounter, pendingTimers,
                 pendingMicrotasks, envs, tracer, err, timersToProcess, moveIdx, result,
                 previous, calls, app, visualizer>>

\* ------------------------------------------------------------------------
\* executeCode
\* ------------------------------------------------------------------------
ExecuteCodeEmpty ==
  /\ pc = "executeCode"
  /\ IsEmptyInput(code)
  /\ result' = Result(<<>>, Null)
  /\ pc' = "done"
  /\ calls' = calls + 1
  /\ UNCHANGED <<code, ctl, kont, stepCount, webApiIdCounter, pendingTimers,
                 pendingMicrotasks, envs, tracer, err, timersToProcess, moveIdx, previous,
                 app, visualizer>>

\* the call generateTrace(code): its locals are created afresh (the step
\* objects of an earlier call stay where the earlier result refers to them)
ExecuteCodeCall ==
  /\ pc = "executeCode"
  /\ ~IsEmptyInput(code)
  /\ pc' = "generateTrace"
  /\ tracer' = [createTracer EXCEPT !.objects = tracer.objects]
  /\ stepCount' = 0
  /\ webApiIdCounter' = 1
  /\ pendingTimers' = <<>>
  /\ pendingMicrotasks' = <<>>
  /\ envs' = <<>>
  /\ timersToProcess' = <<>>
  /\ moveIdx' = 1
  /\ ctl' = None
  /\ kont' = <<>>
  /\ err' = NoErr
  /\ UNCHANGED <<code, result, previous, calls, app, visualizer>>

\* the synthetic step pushed after a truncation
WarningStep ==
  [type |-> "warning",
   description |-> "Trace truncated at " \o ToString(TRUNCATE_AT)
     \o " steps for performance. Code may be too complex for visualization.",
   callStack |-> <<>>, consoleOutput |-> <<>>, webApis |-> <<>>, callbackQueue |-> <<>>,
   microtaskQueue |-> <<>>, memoryHeap |-> <<>>, eventLoopPhase |-> "idle"]

\* the warning pushed without cutting the trace
TruncateWithoutCut(tr) ==
  IF Len(tr.steps) > TRUNCATE_AT THEN pushStep(tr, WarningStep) ELSE tr

\* if (steps.length > 1500) { steps.length = 1500; steps.push(warning) }
Truncate(tr) ==
  IF Len(tr.steps) > TRUNCATE_AT
  THEN pushStep([tr EXCEPT !.steps = SubSeq(@, 1, TRUNCATE_AT)], WarningStep)
  ELSE tr

\* hasError ? lastStep.description : null
ErrorOf(tr) ==
  IF Len(tr.steps) > 0 /\ tr.objects[tr.steps[Len(tr.steps)]].type = "error"
  THEN Str(tr.objects[tr.steps[Len(tr.steps)]].description)
  ELSE Null

\* generateTrace returned tracer.steps: the array that is cut and returned is
\* the tracer's own
ExecuteCodeReturn ==
  /\ pc = "return"
  /\ tracer' = Truncate(tracer)
  /\ result' = Result(Truncate(tracer).steps, ErrorOf(Truncate(tracer)))
  /\ pc' = "done"
  /\ calls' = calls + 1
  /\ UNCHANGED <<code, ctl, kont, stepCount, webApiIdCounter, pendingTimers,
                 pendingMicrotasks, envs, err, timersToProcess, moveIdx, previous,
                 app, visualizer>>

\* generateTrace threw: catch (err) { return { steps: [], error: err.message || '...' } }
ExecuteCodeCatch ==
  /\ pc = "threw"
  /\ result' = Result(<<>>, Str(IF ctl.v.message # "" THEN ctl.v.message
                                ELSE "An unexpected error occurred during execution."))
  /\ pc' = "done"
  /\ calls' = calls + 1
  /\ UNCHANGED <<code, ctl, kont, stepCount, webApiIdCounter, pendingTimers,
                 pendingMicrotasks, envs, tracer, err, timersToProcess, moveIdx, previous,
                 app, visualizer>>

\* the caller runs the same source again
CallAgain ==
  /\ pc = "done"
  /\ calls < MaxCalls
  /\ previous' = result
  /\ result' = NoResult
  /\ pc' = "executeCode"
  /\ UNCHANGED <<code, ctl, kont, stepCount, webApiIdCounter, pendingTimers,
                 pendingMicrotasks, envs, tracer, err, timersToProcess, moveIdx, calls,
                 app, visualizer>>

\* ------------------------------------------------------------------------
\* generateTrace: main entry, execProgram, catch
\* ------------------------------------------------------------------------
\* hoisting that binds every var to undefined, bound already or not
RECURSIVE hoistDeclarationsOverwriting(_, _, _)
hoistDeclarationsOverwriting(es, body, env) ==
  IF Len(body) = 0 THEN es
  ELSE LET node == body[1]
           es1 == IF node.type = "FunctionDeclaration"
                  THEN envDefine(es, env, node.name,
                         TracedFunction(node.name, node.params, node.body, env), "function")
                  ELSE IF node.type = "VariableDeclaration" /\ node.kind = "var"
                  THEN envDefine(es, env, node.name, Undefined, "var")
                  ELSE es
       IN hoistDeclarationsOverwriting(es1, Tail(body), env)

RECURSIVE hoistDeclarations(_, _, _)
hoistDeclarations(es, body, env) ==
  IF Len(body) = 0 THEN es
  ELSE LET node == body[1]
           es1 == IF node.type = "FunctionDeclaration"
                  THEN envDefine(es, env, node.name,
                         TracedFunction(node.name, node.params, node.body, env), "function")
                  ELSE IF node.type = "VariableDeclaration" /\ node.kind = "var"
                          /\ node.name \notin DOMAIN es[env].vars
                  THEN envDefine(es, env, node.name, Undefined, "var")
                  ELSE es
       IN hoistDeclarations(es1, Tail(body), env)

\* parseCode, createEnv, envDefine(Promise), and execProgram up to its loop
GenerateTraceStart ==
  /\ pc = "generateTrace"
  /\ pc' = "sync"
  /\ LET ast == parseCode(code) IN
       IF ast.ok
       THEN /\ envs' = hoistDeclarations(
                         envDefine(<<createEnv(0, "Global", "global")>>, 1, "Promise",
                                   getPromiseStub, "const"),
                         ast.v, 1)
            /\ tracer' = addStep(pushCall(tracer, "main()"), "start",
                                 "Program execution started")
            /\ kont' = <<[k |-> "program", rest |-> ast.v, env |-> 1]>>
            /\ ctl' = Ret(Undefined)
       ELSE /\ ctl' = Throw(ast.v)
            /\ UNCHANGED <<envs, tracer, kont>>
  /\ UNCHANGED <<code, err, stepCount, webApiIdCounter, pendingTimers, pendingMicrotasks,
                 timersToProcess, moveIdx, result, previous, calls, app, visualizer>>

\* execProgram: for (const stmt of node.body) { result = execStatement(stmt, env) ... }
ExecProgramNext ==
  /\ TopIs("program")
  /\ ctl.k = "ret"
  /\ ctl.v.t # "ReturnSignal"
  /\ Len(Top.rest) > 0
  /\ ctl' = Exec(Top.rest[1], Top.env)
  /\ kont' = Append(Pop, [Top EXCEPT !.rest = Tail(@)])
  /\ UNCHANGED <<code, pc, stepCount, webApiIdCounter, pendingTimers, pendingMicrotasks,
                 envs, tracer, err, timersToProcess, moveIdx, result, previous, calls,
                 app, visualizer>>

\* execProgram: tracer.popCall(); addStep(null, 'end', ...)
ExecProgramEnd ==
  /\ TopIs("program")
  /\ ctl.k = "ret"
  /\ ctl.v.t = "ReturnSignal" \/ Len(Top.rest) = 0
  /\ tracer' = addStep(popCall(tracer), "end", "Program execution completed")
  /\ kont' = <<>>
  /\ ctl' = None
  /\ pc' = "afterSync"
  /\ UNCHANGED <<code, err, stepCount, webApiIdCounter, pendingTimers, pendingMicrotasks,
                 envs, timersToProcess, moveIdx, result, previous, calls, app, visualizer>>

\* if (pendingTimers.length > 0 || pendingMicrotasks.length > 0) { ...processAsyncQueues }
AfterSync ==
  /\ pc = "afterSync"
  /\ IF Len(pendingTimers) > 0 \/ Len(pendingMicrotasks) > 0
     THEN /\ tracer' = addStep(setEventLoopPhase(tracer, "checking-queues"), "eventloop",
                               "Synchronous code completed - Event Loop checking queues")
          /\ pc' = "phase1"
     ELSE /\ pc' = "return"
          /\ UNCHANGED tracer
  /\ UNCHANGED <<code, err, ctl, kont, stepCount, webApiIdCounter, pendingTimers,
                 pendingMicrotasks, envs, timersToProcess, moveIdx, result, previous, calls,
                 app, visualizer>>

\* err.message || String(err), for err neither null nor undefined
MessageOrString(e) ==
  IF e.t = "Error" /\ e.message # "" THEN e.message ELSE StringOf(e)

\* catch (err) of generateTrace. Reading err.message of null or undefined
\* throws a TypeError out of generateTrace.
GenerateTraceCatch ==
  /\ pc \in {"sync", "phase1", "phase2", "phase3", "drain"}
  /\ kont = <<>>
  /\ ctl.k = "throw"
  /\ err' = ctl.v
  /\ IF ctl.v.t = "Error" /\ ctl.v.name = "StepLimitError"
     THEN /\ tracer' = addStep(tracer, "error", ctl.v.message)
          /\ pc' = "return"
          /\ ctl' = None
     ELSE IF ctl.v.t \in {"null", "undefined"}
     THEN /\ ctl' = Throw(ErrorObj("TypeError",
                      "Cannot read properties of " \o ctl.v.t \o " (reading 'message')"))
          /\ pc' = "threw"
          /\ UNCHANGED tracer
     ELSE /\ tracer' = addStep(tracer, "error", "Runtime Error: " \o MessageOrString(ctl.v))
          /\ pc' = "return"
          /\ ctl' = None
  /\ UNCHANGED <<code, kont, stepCount, webApiIdCounter, pendingTimers, pendingMicrotasks,
                 envs, timersToProcess, moveIdx, result, previous, calls, app, visualizer>>

\* ------------------------------------------------------------------------
\* execStatement: checkStepLimit, then the statement by its type
\* ------------------------------------------------------------------------
ExecIs(type) == ctl.k = "exec" /\ ctl.node.type = type /\ ~LimitReached

\* value !== null && typeof value === 'object' && !(value instanceof TracedFunction)
IsHeapValue(v) == v.t \in {"array", "promise", "PromiseConstructor", "Error"}

\* execVariableDeclaration, once the initialiser has its value:
\* the environments and the tracer after the declaration
DeclareVariable(es, tr, node, env, value) ==
  LET es1 == IF node.kind = "var" THEN envSet(es, env, node.name, value)
             ELSE envDefine(es, env, node.name, value, node.kind)
      tr1 == IF IsHeapValue(value) THEN allocateHeap(tr, value, node.name) ELSE tr
  IN [envs |-> es1,
      tracer |-> addStep(tr1, "variable",
                   "Declared " \o node.kind \o " " \o node.name \o " = " \o fmt(value))]

\* execVariableDeclaration: evaluate the initialiser
ExecVariableDeclaration ==
  /\ ExecIs("VariableDeclaration")
  /\ stepCount' = stepCount + 1
  /\ kont' = Append(kont, [k |-> "declare", node |-> ctl.node, env |-> ctl.env])
  /\ ctl' = Eval(ctl.node.init, ctl.env)
  /\ UNCHANGED <<code, err, pc, webApiIdCounter, pendingTimers, pendingMicrotasks, envs, tracer,
                 timersToProcess, moveIdx, result, previous, calls, app, visualizer>>

\* execVariableDeclaration: bind, allocate, record the step
VariableDeclarationBind ==
  /\ TopIs("declare")
  /\ ctl.k = "ret"
  /\ LET d == DeclareVariable(envs, tracer, Top.node, Top.env, ctl.v) IN
       /\ envs' = d.envs
       /\ tracer' = d.tracer
  /\ kont' = Pop
  /\ ctl' = Ret(Undefined)
  /\ UNCHANGED <<code, err, pc, stepCount, webApiIdCounter, pendingTimers, pendingMicrotasks,
                 timersToProcess, moveIdx, result, previous, calls, app, visualizer>>

\* execExpressionStatement: the statement's result is the expression's value
ExecExpressionStatement ==
  /\ ExecIs("ExpressionStatement")
  /\ stepCount' = stepCount + 1
  /\ ctl' = Eval(ctl.node.expression, ctl.env)
  /\ UNCHANGED <<code, pc, kont, webApiIdCounter, pendingTimers, pendingMicrotasks, envs,
                 tracer, err, timersToProcess, moveIdx, result, previous, calls, app, visualizer>>

\* execFunctionDeclaration: already hoisted, only the step is recorded
ExecFunctionDeclaration ==
  /\ ExecIs("FunctionDeclaration")
  /\ stepCount' = stepCount + 1
  /\ tracer' = addStep(tracer, "function",
                       "Function " \o ctl.node.name \o " declared (hoisted)")
  /\ ctl' = Ret(Undefined)
  /\ UNCHANGED <<code, err, pc, kont, webApiIdCounter, pendingTimers, pendingMicrotasks, envs,
                 timersToProcess, moveIdx, result, previous, calls, app, visualizer>>

\* execBlockStatement: a new environment, hoisting, then the statement loop
ExecBlockStatement ==
  /\ ExecIs("BlockStatement")
  /\ stepCount' = stepCount + 1
  /\ LET blockEnv == Len(envs) + 1 IN
       /\ envs' = hoistDeclarations(Append(envs, createEnv(ctl.env, "block", "block")),
                                    ctl.node.body, blockEnv)
       /\ kont' = Append(kont, [k |-> "block", rest |-> ctl.node.body, env |-> blockEnv])
  /\ ctl' = Ret(Undefined)
  /\ UNCHANGED <<code, err, pc, webApiIdCounter, pendingTimers, pendingMicrotasks, tracer,
                 timersToProcess, moveIdx, result, previous, calls, app, visualizer>>

\* execBlockStatement: the next statement of the block
BlockNext ==
  /\ TopIs("block")
  /\ ctl.k = "ret"
  /\ ~IsSignal(ctl.v)
  /\ Len(Top.rest) > 0
  /\ ctl' = Exec(Top.rest[1], Top.env)
  /\ kont' = Append(Pop, [Top EXCEPT !.rest = Tail(@)])
  /\ UNCHANGED <<code, pc, stepCount, webApiIdCounter, pendingTimers, pendingMicrotasks,
                 envs, tracer, err, timersToProcess, moveIdx, result, previous, calls,
                 app, visualizer>>

\* execBlockStatement: a signal is handed on, the end of the block gives undefined
BlockEnd ==
  /\ TopIs("block")
  /\ ctl.k = "ret"
  /\ (IsSignal(ctl.v) \/ Len(Top.rest) = 0)
  /\ ctl' = Ret(IF IsSignal(ctl.v) THEN ctl.v ELSE Undefined)
  /\ kont' = Pop
  /\ UNCHANGED <<code, pc, stepCount, webApiIdCounter, pendingTimers, pendingMicrotasks,
                 envs, tracer, err, timersToProcess, moveIdx, result, previous, calls,
                 app, visualizer>>

\* evalUpdateExpression: the environments and tracer after name++ / name--,
\* or the error thrown by envGet
evalUpdateExpression(es, tr, node, env) ==
  LET name == node.argument.name
      old == envGet(es, env, name)
  IN IF ~old.ok THEN [ok |-> FALSE, v |-> old.v, envs |-> es, tracer |-> tr]
     ELSE LET newVal == Num(IF node.operator = "++" THEN old.v.v + 1 ELSE old.v.v - 1) IN
       [ok |-> TRUE, v |-> old.v, envs |-> envSet(es, env, name, newVal),
        tracer |-> addStep(tr, "variable",
                     "Updated " \o name \o ": " \o fmt(old.v) \o " -> " \o fmt(newVal))]

\* execWhileStatement up to its loop
ExecWhileStatement ==
  /\ ExecIs("WhileStatement")
  /\ stepCount' = stepCount + 1
  /\ tracer' = addStep(tracer, "loop", "while loop started")
  /\ kont' = Append(kont, [k |-> "while", node |-> ctl.node, env |-> ctl.env])
  /\ ctl' = Iter
  /\ UNCHANGED <<code, err, pc, webApiIdCounter, pendingTimers, pendingMicrotasks, envs,
                 timersToProcess, moveIdx, result, previous, calls, app, visualizer>>

\* execWhileStatement: checkStepLimit, the test, then the body or the exit
WhileIteration ==
  /\ TopIs("while")
  /\ ctl = Iter
  /\ ~LimitReached
  /\ stepCount' = stepCount + 1
  /\ LET test == evalExpression(envs, Top.node.test, Top.env) IN
       IF ~test.ok
       THEN /\ ctl' = Throw(test.v)
            /\ UNCHANGED <<tracer, kont>>
       ELSE /\ tracer' = addStep(tracer, "loop",
                           "while condition: " \o fmt(test.v) \o " -> "
                           \o (IF Truthy(test.v) THEN "true" ELSE "false"))
            /\ IF Truthy(test.v)
               THEN /\ ctl' = Exec(Top.node.body, Top.env)
                    /\ UNCHANGED kont
               ELSE /\ ctl' = Ret(Undefined)
                    /\ kont' = Pop
  /\ UNCHANGED <<code, err, pc, webApiIdCounter, pendingTimers, pendingMicrotasks, envs,
                 timersToProcess, moveIdx, result, previous, calls, app, visualizer>>

\* execWhileStatement: the body's result
WhileAfterBody ==
  /\ TopIs("while")
  /\ ctl.k = "ret"
  /\ IF ctl.v.t = "ReturnSignal"
     THEN /\ ctl' = ctl
          /\ kont' = Pop
     ELSE IF ctl.v.t = "BreakSignal"
     THEN /\ ctl' = Ret(Undefined)
          /\ kont' = Pop
     ELSE /\ ctl' = Iter
          /\ UNCHANGED kont
  /\ UNCHANGED <<code, pc, stepCount, webApiIdCounter, pendingTimers, pendingMicrotasks,
                 envs, tracer, err, timersToProcess, moveIdx, result, previous, calls,
                 app, visualizer>>

\* execForStatement up to its loop: one loopEnv for the whole loop, the
\* initialiser run in it
ExecForStatement ==
  /\ ExecIs("ForStatement")
  /\ stepCount' = stepCount + 1
  /\ LET loopEnv == Len(envs) + 1
         es1 == Append(envs, createEnv(ctl.env, "for-block", "block"))
         init == ctl.node.init
         value == evalExpression(es1, IF init.type = "VariableDeclaration" THEN init.init
                                      ELSE NoNode, loopEnv)
     IN IF ~value.ok
        THEN /\ ctl' = Throw(value.v)
             /\ envs' = es1
             /\ UNCHANGED <<tracer, kont>>
        ELSE LET d == IF init.type = "VariableDeclaration"
                      THEN DeclareVariable(es1, tracer, init, loopEnv, value.v)
                      ELSE [envs |-> es1, tracer |-> tracer]
             IN /\ envs' = d.envs
                /\ tracer' = addStep(d.tracer, "loop", "for loop started")
                /\ kont' = Append(kont, [k |-> "for", node |-> ctl.node, env |-> loopEnv])
                /\ ctl' = Iter
  /\ UNCHANGED <<code, err, pc, webApiIdCounter, pendingTimers, pendingMicrotasks,
                 timersToProcess, moveIdx, result, previous, calls, app, visualizer>>

\* execForStatement: checkStepLimit, the test if there is one, then the body
ForIteration ==
  /\ TopIs("for")
  /\ ctl = Iter
  /\ ~LimitReached
  /\ stepCount' = stepCount + 1
  /\ IF Top.node.test.type = "null"
     THEN /\ ctl' = Exec(Top.node.body, Top.env)
          /\ UNCHANGED <<tracer, kont>>
     ELSE LET test == evalExpression(envs, Top.node.test, Top.env) IN
       IF ~test.ok
       THEN /\ ctl' = Throw(test.v)
            /\ UNCHANGED <<tracer, kont>>
       ELSE /\ tracer' = addStep(tracer, "loop",
                           "for condition: " \o fmt(test.v) \o " -> "
                           \o (IF Truthy(test.v) THEN "true" ELSE "false"))
            /\ IF Truthy(test.v)
               THEN /\ ctl' = Exec(Top.node.body, Top.env)
                    /\ UNCHANGED kont
               ELSE /\ ctl' = Ret(Undefined)
                    /\ kont' = Pop
  /\ UNCHANGED <<code, err, pc, webApiIdCounter, pendingTimers, pendingMicrotasks, envs,
                 timersToProcess, moveIdx, result, previous, calls, app, visualizer>>

\* execForStatement: the body's result, then the update in the same loopEnv
ForAfterBody ==
  /\ TopIs("for")
  /\ ctl.k = "ret"
  /\ IF ctl.v.t = "ReturnSignal"
     THEN /\ ctl' = ctl
          /\ kont' = Pop
          /\ UNCHANGED <<envs, tracer>>
     ELSE IF ctl.v.t = "BreakSignal"
     THEN /\ ctl' = Ret(Undefined)
          /\ kont' = Pop
          /\ UNCHANGED <<envs, tracer>>
     ELSE IF Top.node.update.type = "null"
     THEN /\ ctl' = Iter
          /\ UNCHANGED <<kont, envs, tracer>>
     ELSE LET u == evalUpdateExpression(envs, tracer, Top.node.update, Top.env) IN
          /\ ctl' = IF u.ok THEN Iter ELSE Throw(u.v)
          /\ envs' = u.envs
          /\ tracer' = u.tracer
          /\ UNCHANGED kont
  /\ UNCHANGED <<code, err, pc, stepCount, webApiIdCounter, pendingTimers, pendingMicrotasks,
                 timersToProcess, moveIdx, result, previous, calls, app, visualizer>>

\* Object.keys(right): the indices of an array as strings (no other value
\* with keys is iterated by the programs)
ObjectKeys(arr) ==
  IF arr.t = "array" THEN [i \in 1..Len(arr.elems) |-> Str(ToString(i - 1))] ELSE <<>>

\* execForOfInStatement up to its loop: the right-hand side, the items to
\* iterate (the array itself, or its keys), the step
ExecForOfInStatement ==
  /\ ctl.k = "exec"
  /\ ctl.node.type \in {"ForOfStatement", "ForInStatement"}
  /\ ~LimitReached
  /\ stepCount' = stepCount + 1
  /\ LET isOf == ctl.node.type = "ForOfStatement"
         right == evalExpression(envs, ctl.node.right, ctl.env)
     IN IF ~right.ok
        THEN /\ ctl' = Throw(right.v)
             /\ UNCHANGED <<tracer, kont>>
        ELSE IF ~isOf /\ right.v.t \in {"null", "undefined"}
        THEN \* Object.keys(right) of the host throws
             /\ ctl' = Throw(ErrorObj("TypeError",
                                      "Cannot convert undefined or null to object"))
             /\ UNCHANGED <<tracer, kont>>
        ELSE /\ tracer' = addStep(tracer, "loop",
                                  "for-" \o (IF isOf THEN "of" ELSE "in") \o " loop started")
             /\ IF isOf /\ right.v.t # "array"
                THEN \* for (const item of iterable) of the host throws
                     /\ ctl' = Throw(ErrorObj("TypeError", "iterable is not iterable"))
                     /\ UNCHANGED kont
                ELSE /\ kont' = Append(kont, [k |-> "forof", node |-> ctl.node,
                                              env |-> ctl.env,
                                              items |-> IF isOf THEN right.v.elems
                                                        ELSE ObjectKeys(right.v)])
                     /\ ctl' = Iter
  /\ UNCHANGED <<code, err, pc, webApiIdCounter, pendingTimers, pendingMicrotasks, envs,
                 timersToProcess, moveIdx, result, previous, calls, app, visualizer>>

\* execForOfInStatement with one environment for all iterations: the loop
\* variable is bound in the environment of the loop statement
ForOfInIterationShared ==
  /\ TopIs("forof")
  /\ ctl = Iter
  /\ IF Top.items = <<>>
     THEN /\ ctl' = Ret(Undefined)
          /\ kont' = Pop
          /\ UNCHANGED <<stepCount, envs, tracer>>
     ELSE /\ ~LimitReached
          /\ stepCount' = stepCount + 1
          /\ envs' = envDefine(envs, Top.env, Top.node.left.name, Top.items[1],
                               Top.node.left.kind)
          /\ tracer' = addStep(tracer, "loop",
                               Top.node.left.name \o " = " \o fmt(Top.items[1]))
          /\ kont' = Append(Pop, [Top EXCEPT !.items = Tail(@)])
          /\ ctl' = Exec(Top.node.body, Top.env)
  /\ UNCHANGED <<code, err, pc, webApiIdCounter, pendingTimers, pendingMicrotasks,
                 timersToProcess, moveIdx, result, previous, calls, app, visualizer>>

\* execForOfInStatement, for (const item of iterable): checkStepLimit, a
\* new loopEnv holding the item, the step, the body; or the end of the loop
ForOfInIteration ==
  /\ TopIs("forof")
  /\ ctl = Iter
  /\ IF Top.items = <<>>
     THEN /\ ctl' = Ret(Undefined)
          /\ kont' = Pop
          /\ UNCHANGED <<stepCount, envs, tracer>>
     ELSE /\ ~LimitReached
          /\ stepCount' = stepCount + 1
          /\ LET loopEnv == Len(envs) + 1 IN
               /\ envs' = envDefine(Append(envs, createEnv(Top.env, "for-block", "block")),
                                    loopEnv, Top.node.left.name, Top.items[1],
                                    Top.node.left.kind)
               /\ ctl' = Exec(Top.node.body, loopEnv)
          /\ tracer' = addStep(tracer, "loop",
                               Top.node.left.name \o " = " \o fmt(Top.items[1]))
          /\ kont' = Append(Pop, [Top EXCEPT !.items = Tail(@)])
  /\ UNCHANGED <<code, err, pc, webApiIdCounter, pendingTimers, pendingMicrotasks,
                 timersToProcess, moveIdx, result, previous, calls, app, visualizer>>

\* execForOfInStatement: the body's result
ForOfInAfterBody ==
  /\ TopIs("forof")
  /\ ctl.k = "ret"
  /\ IF ctl.v.t = "ReturnSignal"
     THEN /\ ctl' = ctl
          /\ kont' = Pop
     ELSE IF ctl.v.t = "BreakSignal"
     THEN /\ ctl' = Ret(Undefined)
          /\ kont' = Pop
     ELSE /\ ctl' = Iter
          /\ UNCHANGED kont
  /\ UNCHANGED <<code, pc, stepCount, webApiIdCounter, pendingTimers, pendingMicrotasks,
                 envs, tracer, err, timersToProcess, moveIdx, result, previous, calls,
                 app, visualizer>>

\* execReturnStatement: the argument's value, the step, the ReturnSignal
ExecReturnStatement ==
  /\ ExecIs("ReturnStatement")
  /\ stepCount' = stepCount + 1
  /\ LET value == IF ctl.node.argument.type = "null" THEN Ok(Undefined)
                  ELSE evalExpression(envs, ctl.node.argument, ctl.env) IN
       IF ~value.ok
       THEN /\ ctl' = Throw(value.v)
            /\ UNCHANGED tracer
       ELSE /\ tracer' = addStep(tracer, "return", "Return " \o fmt(value.v))
            /\ ctl' = Ret(ReturnSignal(value.v))
  /\ UNCHANGED <<code, err, pc, kont, webApiIdCounter, pendingTimers, pendingMicrotasks, envs,
                 timersToProcess, moveIdx, result, previous, calls, app, visualizer>>

\* execStatement, case 'BreakStatement': return new BreakSignal()
ExecBreakStatement ==
  /\ ExecIs("BreakStatement")
  /\ stepCount' = stepCount + 1
  /\ ctl' = Ret(BreakSignal)
  /\ UNCHANGED <<code, pc, kont, webApiIdCounter, pendingTimers, pendingMicrotasks, envs,
                 tracer, err, timersToProcess, moveIdx, result, previous, calls, app, visualizer>>

\* execStatement, case 'ContinueStatement': return new ContinueSignal()
ExecContinueStatement ==
  /\ ExecIs("ContinueStatement")
  /\ stepCount' = stepCount + 1
  /\ ctl' = Ret(ContinueSignal)
  /\ UNCHANGED <<code, pc, kont, webApiIdCounter, pendingTimers, pendingMicrotasks, envs,
                 tracer, err, timersToProcess, moveIdx, result, previous, calls, app, visualizer>>

\* execIfStatement: the test, its step, then the branch taken (if any)
ExecIfStatement ==
  /\ ExecIs("IfStatement")
  /\ stepCount' = stepCount + 1
  /\ LET test == evalExpression(envs, ctl.node.test, ctl.env)
         tr1 == addStep(tracer, "conditional",
                        "if (" \o fmt(test.v) \o ") -> "
                        \o (IF Truthy(test.v) THEN "true" ELSE "false"))
         frame == [k |-> "if"]
     IN IF ~test.ok
        THEN /\ ctl' = Throw(test.v)
             /\ UNCHANGED <<tracer, kont>>
        ELSE IF Truthy(test.v)
        THEN /\ tracer' = tr1
             /\ kont' = Append(kont, frame)
             /\ ctl' = Exec(ctl.node.consequent, ctl.env)
        ELSE IF ctl.node.alternate.type # "null"
        THEN /\ tracer' = addStep(tr1, "conditional", "Entering else branch")
             /\ kont' = Append(kont, frame)
             /\ ctl' = Exec(ctl.node.alternate, ctl.env)
        ELSE /\ tracer' = tr1
             /\ ctl' = Ret(Undefined)
             /\ UNCHANGED kont
  /\ UNCHANGED <<code, err, pc, webApiIdCounter, pendingTimers, pendingMicrotasks, envs,
                 timersToProcess, moveIdx, result, previous, calls, app, visualizer>>

\* execIfStatement: a signal of the branch is handed on, anything else is undefined
IfAfterBranch ==
  /\ TopIs("if")
  /\ ctl.k = "ret"
  /\ ctl' = Ret(IF IsSignal(ctl.v) THEN ctl.v ELSE Undefined)
  /\ kont' = Pop
  /\ UNCHANGED <<code, pc, stepCount, webApiIdCounter, pendingTimers, pendingMicrotasks,
                 envs, tracer, err, timersToProcess, moveIdx, result, previous, calls,
                 app, visualizer>>

\* the cases of a switch from the first one that runs: a case runs when an
\* earlier one matched (fall through), when it is the default, or when its
\* test is strictly equal to the discriminant
RECURSIVE CasesFrom(_, _, _, _)
CasesFrom(es, cases, env, disc) ==
  IF Len(cases) = 0 THEN Ok(<<>>)
  ELSE IF cases[1].test.type = "null" THEN Ok(cases)
  ELSE LET testVal == evalExpression(es, cases[1].test, env) IN
         IF ~testVal.ok THEN testVal
         ELSE IF testVal.v = disc THEN Ok(cases)
         ELSE CasesFrom(es, Tail(cases), env, disc)

\* the statements of the cases that run, in order (once matched, every
\* later case runs too)
RECURSIVE Consequents(_)
Consequents(cases) ==
  IF Len(cases) = 0 THEN <<>> ELSE cases[1].consequent \o Consequents(Tail(cases))

\* execSwitchStatement: the discriminant, its step, the matching case
ExecSwitchStatement ==
  /\ ExecIs("SwitchStatement")
  /\ stepCount' = stepCount + 1
  /\ LET disc == evalExpression(envs, ctl.node.discriminant, ctl.env)
         from == CasesFrom(envs, ctl.node.cases, ctl.env, disc.v)
     IN IF ~disc.ok
        THEN /\ ctl' = Throw(disc.v)
             /\ UNCHANGED <<tracer, kont>>
        ELSE /\ tracer' = addStep(tracer, "conditional", "switch (" \o fmt(disc.v) \o ")")
             /\ IF ~from.ok
                THEN /\ ctl' = Throw(from.v)
                     /\ UNCHANGED kont
                ELSE /\ ctl' = Ret(Undefined)
                     /\ kont' = Append(kont, [k |-> "switch", env |-> ctl.env,
                                              rest |-> Consequents(from.v)])
  /\ UNCHANGED <<code, err, pc, webApiIdCounter, pendingTimers, pendingMicrotasks, envs,
                 timersToProcess, moveIdx, result, previous, calls, app, visualizer>>

\* execSwitchStatement: the next statement of the running cases; only a
\* BreakSignal or a ReturnSignal of the previous one stops the switch
SwitchNext ==
  /\ TopIs("switch")
  /\ ctl.k = "ret"
  /\ ctl.v.t \notin {"BreakSignal", "ReturnSignal"}
  /\ Len(Top.rest) > 0
  /\ ctl' = Exec(Top.rest[1], Top.env)
  /\ kont' = Append(Pop, [Top EXCEPT !.rest = Tail(@)])
  /\ UNCHANGED <<code, pc, stepCount, webApiIdCounter, pendingTimers, pendingMicrotasks,
                 envs, tracer, err, timersToProcess, moveIdx, result, previous, calls,
                 app, visualizer>>

\* execSwitchStatement: a BreakSignal ends the switch with undefined, a
\* ReturnSignal is handed on, the end of the cases gives undefined
SwitchEnd ==
  /\ TopIs("switch")
  /\ ctl.k = "ret"
  /\ (ctl.v.t \in {"BreakSignal", "ReturnSignal"} \/ Len(Top.rest) = 0)
  /\ ctl' = Ret(IF ctl.v.t = "ReturnSignal" THEN ctl.v ELSE Undefined)
  /\ kont' = Pop
  /\ UNCHANGED <<code, pc, stepCount, webApiIdCounter, pendingTimers, pendingMicrotasks,
                 envs, tracer, err, timersToProcess, moveIdx, result, previous, calls,
                 app, visualizer>>

\* execThrowStatement: the step is recorded, then the value is thrown
ExecThrowStatement ==
  /\ ExecIs("ThrowStatement")
  /\ stepCount' = stepCount + 1
  /\ LET value == evalExpression(envs, ctl.node.argument, ctl.env) IN
       IF ~value.ok
       THEN /\ ctl' = Throw(value.v)
            /\ UNCHANGED tracer
       ELSE /\ tracer' = addStep(tracer, "error", "throw " \o fmt(value.v))
            /\ ctl' = Throw(value.v)
  /\ UNCHANGED <<code, err, pc, kont, webApiIdCounter, pendingTimers, pendingMicrotasks, envs,
                 timersToProcess, moveIdx, result, previous, calls, app, visualizer>>

\* execTryStatement: the try block
ExecTryStatement ==
  /\ ExecIs("TryStatement")
  /\ stepCount' = stepCount + 1
  /\ tracer' = addStep(tracer, "trycatch", "Entering try block")
  /\ kont' = Append(kont, [k |-> "try", node |-> ctl.node, env |-> ctl.env,
                           stage |-> "block", pending |-> None])
  /\ ctl' = Exec(ctl.node.block, ctl.env)
  /\ UNCHANGED <<code, err, pc, webApiIdCounter, pendingTimers, pendingMicrotasks, envs,
                 timersToProcess, moveIdx, result, previous, calls, app, visualizer>>

\* execTryStatement: finally { ... } on the way out with the completion
\* (a return or a throw) that is pending
EnterFinally(pending) ==
  IF Top.node.finalizer.type # "null"
  THEN /\ tracer' = addStep(tracer, "trycatch", "Entering finally block")
       /\ kont' = Append(Pop, [Top EXCEPT !.stage = "finalizer", !.pending = pending])
       /\ ctl' = Exec(Top.node.finalizer, Top.env)
  ELSE /\ kont' = Pop
       /\ ctl' = pending
       /\ UNCHANGED tracer

\* what execTryStatement returns after its try block or its handler:
\* a ReturnSignal is handed on, anything else becomes undefined
TryCompletion(v) == Ret(IF v.t = "ReturnSignal" THEN v ELSE Undefined)

\* the try block completed, a return inside it leaving at once
TryAfterBlockSkipsFinally ==
  /\ TopIs("try")
  /\ Top.stage = "block"
  /\ ctl.k = "ret"
  /\ IF ctl.v.t = "ReturnSignal"
     THEN /\ kont' = Pop
          /\ UNCHANGED <<ctl, tracer>>
     ELSE EnterFinally(TryCompletion(ctl.v))
  /\ UNCHANGED <<code, err, pc, stepCount, webApiIdCounter, pendingTimers, pendingMicrotasks,
                 envs, timersToProcess, moveIdx, result, previous, calls, app, visualizer>>

\* the try block completed
TryAfterBlock ==
  /\ TopIs("try")
  /\ Top.stage = "block"
  /\ ctl.k = "ret"
  /\ EnterFinally(TryCompletion(ctl.v))
  /\ UNCHANGED <<code, err, pc, stepCount, webApiIdCounter, pendingTimers, pendingMicrotasks,
                 envs, timersToProcess, moveIdx, result, previous, calls, app, visualizer>>

\* catch (err): whatever was thrown in the try block, with a handler
TryCatch ==
  /\ TopIs("try")
  /\ Top.stage = "block"
  /\ ctl.k = "throw"
  /\ Top.node.handler.type # "null"
  /\ LET catchEnv == Len(envs) + 1
         es1 == Append(envs, createEnv(Top.env, "catch", "block"))
     IN /\ envs' = IF Top.node.handler.param # ""
                   THEN envDefine(es1, catchEnv, Top.node.handler.param, ctl.v, "let")
                   ELSE es1
        /\ tracer' = addStep(tracer, "trycatch", "Caught error: " \o fmt(ctl.v))
        /\ kont' = Append(Pop, [Top EXCEPT !.stage = "handler"])
        /\ ctl' = Exec(Top.node.handler.body, catchEnv)
  /\ UNCHANGED <<code, err, pc, stepCount, webApiIdCounter, pendingTimers, pendingMicrotasks,
                 timersToProcess, moveIdx, result, previous, calls, app, visualizer>>

\* catch (err) { throw err } without a handler, and a throw out of the handler
TryRethrow ==
  /\ TopIs("try")
  /\ ctl.k = "throw"
  /\ (Top.stage = "block" /\ Top.node.handler.type = "null") \/ Top.stage = "handler"
  /\ EnterFinally(ctl)
  /\ UNCHANGED <<code, err, pc, stepCount, webApiIdCounter, pendingTimers, pendingMicrotasks,
                 envs, timersToProcess, moveIdx, result, previous, calls, app, visualizer>>

\* the handler completed
TryAfterHandler ==
  /\ TopIs("try")
  /\ Top.stage = "handler"
  /\ ctl.k = "ret"
  /\ EnterFinally(TryCompletion(ctl.v))
  /\ UNCHANGED <<code, err, pc, stepCount, webApiIdCounter, pendingTimers, pendingMicrotasks,
                 envs, timersToProcess, moveIdx, result, previous, calls, app, visualizer>>

\* the finally block completed: its own return wins, else the pending completion
TryAfterFinalizer ==
  /\ TopIs("try")
  /\ Top.stage = "finalizer"
  /\ ctl.k = "ret"
  /\ ctl' = IF ctl.v.t = "ReturnSignal" THEN ctl ELSE Top.pending
  /\ kont' = Pop
  /\ UNCHANGED <<code, pc, stepCount, webApiIdCounter, pendingTimers, pendingMicrotasks,
                 envs, tracer, err, timersToProcess, moveIdx, result, previous, calls,
                 app, visualizer>>

\* a JavaScript exception leaves an activation record that does not catch it
Unwind ==
  /\ ctl.k = "throw"
  /\ Len(kont) > 0
  /\ ~(TopIs("try") /\ Top.stage \in {"block", "handler"})
  /\ ~TopIs("typeof")
  /\ kont' = Pop
  /\ UNCHANGED <<code, pc, ctl, stepCount, webApiIdCounter, pendingTimers, pendingMicrotasks,
                 envs, tracer, err, timersToProcess, moveIdx, result, previous, calls,
                 app, visualizer>>

\* ------------------------------------------------------------------------
\* evalExpression on calls and updates
\* ------------------------------------------------------------------------
\* node.callee.property.name === s || node.callee.property.value === s
PropIs(callee, s) ==
  \/ callee.property.type = "Identifier" /\ callee.property.name = s
  \/ callee.property.type = "Literal" /\ callee.property.value = Str(s)

\* the branch of evalCallExpression a call takes, decided on its syntax
CalleeKind(node) ==
  LET callee == node.callee IN
    IF callee.type = "MemberExpression" /\ callee.object.type = "Identifier"
       /\ callee.object.name = "console"
    THEN "console"
    ELSE IF callee.type = "Identifier" /\ callee.name \in {"setTimeout", "setInterval"}
    THEN "timer"
    ELSE IF callee.type = "MemberExpression" /\ PropIs(callee, "then")
    THEN "then"
    ELSE IF callee.type = "MemberExpression"
    THEN "method"
    ELSE "function"

EvalCallIs(kind) ==
  /\ ctl.k = "eval"
  /\ ctl.node.type = "CallExpression"
  /\ CalleeKind(ctl.node) = kind
  /\ evalArguments(envs, ctl.node.arguments, ctl.env).ok

CallArgs == evalArguments(envs, ctl.node.arguments, ctl.env).v

FmtArgs(args) == JoinWith([i \in 1..Len(args) |-> fmt(args[i])], ", ")

ArgOr(args, i, default) == IF i <= Len(args) THEN args[i] ELSE default

\* an expression that records no step and calls no user code
EvalPure ==
  /\ ctl.k = "eval"
  /\ ctl.node.type \notin {"CallExpression", "UpdateExpression", "UnaryExpression",
                            "NewExpression"}
  /\ LET r == evalExpression(envs, ctl.node, ctl.env) IN
       ctl' = IF r.ok THEN Ret(r.v) ELSE Throw(r.v)
  /\ UNCHANGED <<code, pc, kont, stepCount, webApiIdCounter, pendingTimers,
                 pendingMicrotasks, envs, tracer, err, timersToProcess, moveIdx, result,
                 previous, calls, app, visualizer>>

\* evalUpdateExpression as an expression statement
EvalUpdate ==
  /\ ctl.k = "eval"
  /\ ctl.node.type = "UpdateExpression"
  /\ LET u == evalUpdateExpression(envs, tracer, ctl.node, ctl.env) IN
       /\ ctl' = IF u.ok THEN Ret(u.v) ELSE Throw(u.v)
       /\ envs' = u.envs
       /\ tracer' = u.tracer
  /\ UNCHANGED <<code, err, pc, kont, stepCount, webApiIdCounter, pendingTimers,
                 pendingMicrotasks, timersToProcess, moveIdx, result, previous, calls,
                 app, visualizer>>

\* the host's typeof on a value of the interpreter (a TracedFunction is an
\* object of the host)
TypeofValue(v) ==
  CASE v.t = "undefined" -> "undefined"
    [] v.t \in {"number", "fraction"} -> "number"
    [] v.t = "string" -> "string"
    [] v.t = "boolean" -> "boolean"
    [] v.t = "native" -> IF v.name \in {"Math", "JSON"} THEN "object" ELSE "function"
    [] v.t = "resolveFn" -> "function"
    [] OTHER -> "object"

\* evalUnaryExpression, typeof: try { evalExpression(node.argument, env) }
EvalTypeof ==
  /\ ctl.k = "eval"
  /\ ctl.node.type = "UnaryExpression"
  /\ ctl.node.operator = "typeof"
  /\ kont' = Append(kont, [k |-> "typeof"])
  /\ ctl' = Eval(ctl.node.argument, ctl.env)
  /\ UNCHANGED <<code, pc, stepCount, webApiIdCounter, pendingTimers, pendingMicrotasks,
                 envs, tracer, err, timersToProcess, moveIdx, result, previous, calls,
                 app, visualizer>>

\* evalUnaryExpression, typeof: return typeof val, and
\* catch { return 'undefined' } whatever the argument threw
TypeofEnd ==
  /\ TopIs("typeof")
  /\ ctl.k \in {"ret", "throw"}
  /\ ctl' = Ret(Str(IF ctl.k = "throw" THEN "undefined" ELSE TypeofValue(ctl.v)))
  /\ kont' = Pop
  /\ UNCHANGED <<code, pc, stepCount, webApiIdCounter, pendingTimers, pendingMicrotasks,
                 envs, tracer, err, timersToProcess, moveIdx, result, previous, calls,
                 app, visualizer>>

\* evalCallExpression: an argument throws
EvalCallArgsThrow ==
  /\ ctl.k = "eval"
  /\ ctl.node.type = "CallExpression"
  /\ ~evalArguments(envs, ctl.node.arguments, ctl.env).ok
  /\ ctl' = Throw(evalArguments(envs, ctl.node.arguments, ctl.env).v)
  /\ UNCHANGED <<code, pc, kont, stepCount, webApiIdCounter, pendingTimers,
                 pendingMicrotasks, envs, tracer, err, timersToProcess, moveIdx, result,
                 previous, calls, app, visualizer>>

\* evalCallExpression: console.log / warn / error
EvalCallConsole ==
  /\ EvalCallIs("console")
  /\ tracer' = addStep(logConsole(tracer, CallArgs), "console",
                       "console." \o ctl.node.callee.property.name \o "("
                       \o FmtArgs(CallArgs) \o ")")
  /\ ctl' = Ret(Undefined)
  /\ UNCHANGED <<code, err, pc, kont, stepCount, webApiIdCounter, pendingTimers,
                 pendingMicrotasks, envs, timersToProcess, moveIdx, result, previous, calls,
                 app, visualizer>>

\* timers kept in the order of their delays, as a browser fires them
handleSetTimeoutByDelay ==
  /\ EvalCallIs("timer")
  /\ LET callback == ArgOr(CallArgs, 1, Undefined)
         delayArg == ArgOr(CallArgs, 2, Undefined)
         delay == IF Truthy(delayArg) THEN delayArg ELSE Num(0)
         id == webApiIdCounter
         label == "setTimeout(" \o StringOf(delay) \o "ms)"
         timer == [id |-> id, label |-> label, delay |-> delay, tracedFn |-> callback,
                   closureEnv |-> IF callback.t = "TracedFunction" THEN callback.closureEnv
                                  ELSE ctl.env]
     IN /\ webApiIdCounter' = webApiIdCounter + 1
        /\ tracer' = addStep(addWebApi(tracer, id, "timer", label, delay), "webapi",
                             label \o " - added to Web APIs")
        /\ pendingTimers' =
             SelectSeq(pendingTimers, LAMBDA t : t.delay.v <= delay.v)
             \o <<timer>> \o SelectSeq(pendingTimers, LAMBDA t : t.delay.v > delay.v)
        /\ ctl' = Ret(Num(id))
  /\ UNCHANGED <<code, err, pc, kont, stepCount, pendingMicrotasks, envs, timersToProcess,
                 moveIdx, result, previous, calls, app, visualizer>>

\* handleSetTimeout (setTimeout and setInterval alike)
handleSetTimeout ==
  /\ EvalCallIs("timer")
  /\ LET callback == ArgOr(CallArgs, 1, Undefined)
         delayArg == ArgOr(CallArgs, 2, Undefined)
         delay == IF Truthy(delayArg) THEN delayArg ELSE Num(0)
         id == webApiIdCounter
         label == "setTimeout(" \o StringOf(delay) \o "ms)"
     IN /\ webApiIdCounter' = webApiIdCounter + 1
        /\ tracer' = addStep(addWebApi(tracer, id, "timer", label, delay), "webapi",
                             label \o " - added to Web APIs")
        /\ pendingTimers' = Append(pendingTimers,
             [id |-> id, label |-> label, delay |-> delay, tracedFn |-> callback,
              closureEnv |-> IF callback.t = "TracedFunction" THEN callback.closureEnv
                             ELSE ctl.env])
        /\ ctl' = Ret(Num(id))
  /\ UNCHANGED <<code, err, pc, kont, stepCount, pendingMicrotasks, envs, timersToProcess,
                 moveIdx, result, previous, calls, app, visualizer>>

\* handlePromiseThen: first the object .then is called on
EvalCallThen ==
  /\ EvalCallIs("then")
  /\ kont' = Append(kont, [k |-> "then", args |-> CallArgs, env |-> ctl.env])
  /\ ctl' = Eval(ctl.node.callee.object, ctl.env)
  /\ UNCHANGED <<code, pc, stepCount, webApiIdCounter, pendingTimers, pendingMicrotasks,
                 envs, tracer, err, timersToProcess, moveIdx, result, previous, calls,
                 app, visualizer>>

\* promiseObj && promiseObj.__resolvedValue
ResolvedValueOf(promiseObj) ==
  IF ~Truthy(promiseObj) THEN promiseObj
  ELSE IF promiseObj.t = "promise" THEN promiseObj.resolvedValue
  ELSE Undefined

\* handlePromiseThen with the callback put at the head of pendingMicrotasks
handlePromiseThenAtHead ==
  /\ TopIs("then")
  /\ ctl.k = "ret"
  /\ LET callback == ArgOr(Top.args, 1, Undefined)
         label == ".then() callback"
     IN /\ pendingMicrotasks' =
             IF callback.t = "TracedFunction"
             THEN <<[label |-> label, tracedFn |-> callback,
                     closureEnv |-> callback.closureEnv,
                     resolvedValue |-> ResolvedValueOf(ctl.v)]>> \o pendingMicrotasks
             ELSE pendingMicrotasks
        /\ tracer' = addStep(addToMicrotaskQueue(tracer, label), "microtask",
                             "Promise.then() - callback added to Microtask Queue")
  /\ ctl' = Ret(PromiseObj(ResolvedValueOf(ctl.v)))
  /\ kont' = Pop
  /\ UNCHANGED <<code, err, pc, stepCount, webApiIdCounter, pendingTimers, envs,
                 timersToProcess, moveIdx, result, previous, calls, app, visualizer>>

\* handlePromiseThen: the callback joins pendingMicrotasks if it is a
\* TracedFunction; the tracer's microtask queue gets an entry in any case
handlePromiseThen ==
  /\ TopIs("then")
  /\ ctl.k = "ret"
  /\ LET callback == ArgOr(Top.args, 1, Undefined)
         label == ".then() callback"
     IN /\ pendingMicrotasks' =
             IF callback.t = "TracedFunction"
             THEN Append(pendingMicrotasks,
                    [label |-> label, tracedFn |-> callback,
                     closureEnv |-> callback.closureEnv,
                     resolvedValue |-> ResolvedValueOf(ctl.v)])
             ELSE pendingMicrotasks
        /\ tracer' = addStep(addToMicrotaskQueue(tracer, label), "microtask",
                             "Promise.then() - callback added to Microtask Queue")
  /\ ctl' = Ret(PromiseObj(ResolvedValueOf(ctl.v)))
  /\ kont' = Pop
  /\ UNCHANGED <<code, err, pc, stepCount, webApiIdCounter, pendingTimers, envs,
                 timersToProcess, moveIdx, result, previous, calls, app, visualizer>>

\* invokeFunction(callee, calleeName, args, env, line, thisArg), from the
\* tracer tr on: a TracedFunction gets a frame, an environment parented at
\* its closureEnv, this, its parameters and its hoisted declarations;
\* the Promise stub gives a promise; anything else is not a function.
\* (Native functions are not called by the programs of this model.)
RECURSIVE BindParams(_, _, _, _)
BindParams(es, fnEnv, params, args) ==
  IF Len(params) = 0 THEN es
  ELSE BindParams(envDefine(es, fnEnv, params[1], ArgOr(args, 1, Undefined), "let"),
                  fnEnv, Tail(params), IF Len(args) = 0 THEN args ELSE Tail(args))

\* invokeFunction, native branch, for the resolve and reject functions of
\* handleNewPromise: callee(...args) assigns to the promise object, which the
\* local variable of handleNewPromise and every binding it was stored in
\* refer to; then the 'call' step
CallResolveFn(tr, callee, calleeName, args) ==
  LET settle(v) == IF IsPromiseRecord(v, callee.promise)
                   THEN SettlePromise(v, callee.name, ArgOr(args, 1, Undefined))
                   ELSE v
  IN /\ kont' = [i \in 1..Len(kont) |->
                   IF kont[i].k = "newpromise"
                   THEN [kont[i] EXCEPT !.promiseObj = settle(kont[i].promiseObj)]
                   ELSE kont[i]]
     /\ envs' = [e \in 1..Len(envs) |->
                   [envs[e] EXCEPT !.vars =
                      [n \in DOMAIN envs[e].vars |->
                         [envs[e].vars[n] EXCEPT !.value = settle(envs[e].vars[n].value)]]]]
     /\ tracer' = addStep(tr, "call",
                          calleeName \o "(" \o FmtArgs(args) \o ") -> undefined")
     /\ ctl' = Ret(Undefined)

\* invokeFunction with the new environment parented at the environment of
\* the call (dynamic scoping)
invokeFunctionAtCaller(tr, callee, calleeName, args, thisArg) ==
  IF callee.t = "resolveFn"
  THEN CallResolveFn(tr, callee, calleeName, args)
  ELSE IF callee.t = "TracedFunction" /\ Len(kont) >= HostStackLimit
  THEN /\ ctl' = Throw(ErrorObj("RangeError", "Maximum call stack size exceeded"))
       /\ tracer' = tr
       /\ UNCHANGED <<envs, kont>>
  ELSE IF callee.t = "TracedFunction"
  THEN LET fnEnv == Len(envs) + 1
           callerEnv == IF ctl.k = "eval" THEN ctl.env ELSE 1
           es1 == Append(envs, createEnv(callerEnv, callee.name, "function"))
           es2 == envDefine(es1, fnEnv, "this",
                            IF thisArg.t \in {"null", "undefined"}
                            THEN [t |-> "globalThis"] ELSE thisArg, "const")
           es3 == BindParams(es2, fnEnv, callee.params, args)
           block == callee.body.type = "BlockStatement"
       IN /\ tracer' = addStep(pushCall(tr, callee.name \o "()"), "call",
                               "Calling " \o callee.name \o "(" \o FmtArgs(args) \o ")")
          /\ envs' = IF block THEN hoistDeclarations(es3, callee.body.body, fnEnv) ELSE es3
          /\ kont' = Append(kont, [k |-> "invoke", callee |-> callee, env |-> fnEnv,
                                   rest |-> IF block THEN callee.body.body ELSE <<>>,
                                   exprBody |-> ~block])
          /\ ctl' = IF block THEN Ret(Undefined) ELSE Eval(callee.body, fnEnv)
  ELSE /\ ctl' = IF callee.t = "PromiseConstructor" THEN Ret(PromiseObj(Undefined))
                 ELSE Throw(ErrorObj("Error", calleeName \o " is not a function"))
       /\ tracer' = tr
       /\ UNCHANGED <<envs, kont>>

invokeFunction(tr, callee, calleeName, args, thisArg) ==
  IF callee.t = "resolveFn"
  THEN CallResolveFn(tr, callee, calleeName, args)
  ELSE IF callee.t = "TracedFunction" /\ Len(kont) >= HostStackLimit
  THEN \* the host's stack is exhausted by the recursion of the interpreter
       /\ ctl' = Throw(ErrorObj("RangeError", "Maximum call stack size exceeded"))
       /\ tracer' = tr
       /\ UNCHANGED <<envs, kont>>
  ELSE IF callee.t = "TracedFunction"
  THEN LET fnEnv == Len(envs) + 1
           es1 == Append(envs, createEnv(callee.closureEnv, callee.name, "function"))
           es2 == envDefine(es1, fnEnv, "this",
                            IF thisArg.t \in {"null", "undefined"}
                            THEN [t |-> "globalThis"] ELSE thisArg, "const")
           es3 == BindParams(es2, fnEnv, callee.params, args)
           block == callee.body.type = "BlockStatement"
       IN /\ tracer' = addStep(pushCall(tr, callee.name \o "()"), "call",
                               "Calling " \o callee.name \o "(" \o FmtArgs(args) \o ")")
          /\ envs' = IF block THEN hoistDeclarations(es3, callee.body.body, fnEnv) ELSE es3
          /\ kont' = Append(kont, [k |-> "invoke", callee |-> callee, env |-> fnEnv,
                                   rest |-> IF block THEN callee.body.body ELSE <<>>,
                                   exprBody |-> ~block])
          /\ ctl' = IF block THEN Ret(Undefined) ELSE Eval(callee.body, fnEnv)
  ELSE /\ ctl' = IF callee.t = "PromiseConstructor" THEN Ret(PromiseObj(Undefined))
                 ELSE Throw(ErrorObj("Error", calleeName \o " is not a function"))
       /\ tracer' = tr
       /\ UNCHANGED <<envs, kont>>

\* evalMethodCall: Promise.resolve, a native array method (push), a
\* TracedFunction held by the object, or "is not a function"
evalMethodCall ==
  /\ EvalCallIs("method")
  /\ LET callee == ctl.node.callee
         obj == evalExpression(envs, callee.object, ctl.env)
         prop == IF callee.computed THEN evalExpression(envs, callee.property, ctl.env)
                 ELSE Ok(Str(callee.property.name))
         member == IF obj.v.t = "array" /\ prop.v.t = "number"
                      /\ prop.v.v + 1 \in 1..Len(obj.v.elems)
                   THEN obj.v.elems[prop.v.v + 1] ELSE Undefined
     IN IF ~obj.ok
        THEN /\ ctl' = Throw(obj.v)
             /\ UNCHANGED <<envs, tracer, kont>>
        ELSE IF ~prop.ok
        THEN /\ ctl' = Throw(prop.v)
             /\ UNCHANGED <<envs, tracer, kont>>
        ELSE IF obj.v.t = "PromiseConstructor" /\ prop.v = Str("resolve")
        THEN /\ tracer' = addStep(tracer, "promise",
                                  "Promise.resolve(" \o FmtArgs(CallArgs) \o ")")
             /\ ctl' = Ret(PromiseObj(ArgOr(CallArgs, 1, Undefined)))
             /\ UNCHANGED <<envs, kont>>
        ELSE IF obj.v.t = "array" /\ prop.v = Str("push")
        THEN \* the array object is mutated in place: the binding that holds it sees it
             /\ envs' = envSet(envs, ctl.env, callee.object.name,
                               Arr(obj.v.elems \o CallArgs))
             /\ ctl' = Ret(Num(Len(obj.v.elems) + Len(CallArgs)))
             /\ UNCHANGED <<tracer, kont>>
        ELSE IF obj.v = [t |-> "native", name |-> "Math"] /\ prop.v = Str("random")
        THEN \* obj[prop](...args) on the host's Math object
             /\ \E r \in RandomDraws : ctl' = Ret(r)
             /\ UNCHANGED <<envs, tracer, kont>>
        ELSE invokeFunction(tracer,
               IF member.t = "TracedFunction" THEN member ELSE Undefined,
               StringOf(prop.v), CallArgs, obj.v)
  /\ UNCHANGED <<code, err, pc, stepCount, webApiIdCounter, pendingTimers, pendingMicrotasks,
                 timersToProcess, moveIdx, result, previous, calls, app, visualizer>>

\* evalNewExpression for new Promise(executor), and handleNewPromise up to
\* the call of the executor: the 'promise' step, the resolve and reject
\* functions, pushCall('Promise(executor)')
EvalNewExpression ==
  /\ ctl.k = "eval"
  /\ ctl.node.type = "NewExpression"
  /\ ctl.node.callee = Identifier("Promise")
  /\ LET args == evalArguments(envs, ctl.node.arguments, ctl.env)
         executor == ArgOr(args.v, 1, Undefined)
         id == Len(envs) + 1
         tr == addStep(tracer, "promise", "new Promise() - executor runs synchronously")
     IN IF ~args.ok
        THEN /\ ctl' = Throw(args.v)
             /\ UNCHANGED <<tracer, kont>>
        ELSE IF executor.t = "TracedFunction"
        THEN /\ tracer' = pushCall(tr, "Promise(executor)")
             /\ kont' = Append(kont, [k |-> "newpromise", promiseObj |-> NewPromiseObj(id),
                                      env |-> ctl.env])
             /\ ctl' = [k |-> "invoke", callee |-> executor, calleeName |-> "Promise-executor",
                        args |-> <<ResolveFn("resolve", id), ResolveFn("reject", id)>>]
        ELSE /\ tracer' = tr
             /\ ctl' = Ret(PromiseObj(Undefined))
             /\ UNCHANGED kont
  /\ UNCHANGED <<code, err, pc, stepCount, webApiIdCounter, pendingTimers, pendingMicrotasks,
                 envs, timersToProcess, moveIdx, result, previous, calls, app, visualizer>>

\* handleNewPromise: invokeFunction(executor, 'Promise-executor', [resolveFn, rejectFn], env, line)
HandleNewPromiseInvoke ==
  /\ ctl.k = "invoke"
  /\ invokeFunction(tracer, ctl.callee, ctl.calleeName, ctl.args, Null)
  /\ UNCHANGED <<code, err, pc, stepCount, webApiIdCounter, pendingTimers, pendingMicrotasks,
                 timersToProcess, moveIdx, result, previous, calls, app, visualizer>>

\* handleNewPromise after the executor returned: popCall, return promiseObj
HandleNewPromiseEnd ==
  /\ TopIs("newpromise")
  /\ ctl.k = "ret"
  /\ tracer' = popCall(tracer)
  /\ ctl' = Ret(Top.promiseObj)
  /\ kont' = Pop
  /\ UNCHANGED <<code, err, pc, stepCount, webApiIdCounter, pendingTimers, pendingMicrotasks,
                 envs, timersToProcess, moveIdx, result, previous, calls, app, visualizer>>

\* evalCallExpression: a regular call f(args)
EvalCallFunction ==
  /\ EvalCallIs("function")
  /\ LET callee == evalExpression(envs, ctl.node.callee, ctl.env) IN
       IF ~callee.ok
       THEN /\ ctl' = Throw(callee.v)
            /\ UNCHANGED <<envs, tracer, kont>>
       ELSE invokeFunction(tracer, callee.v,
              IF ctl.node.callee.type = "Identifier" THEN ctl.node.callee.name
              ELSE "anonymous", CallArgs, Null)
  /\ UNCHANGED <<code, err, pc, stepCount, webApiIdCounter, pendingTimers, pendingMicrotasks,
                 timersToProcess, moveIdx, result, previous, calls, app, visualizer>>

\* invokeFunction: the next statement of a block body
InvokeNext ==
  /\ TopIs("invoke")
  /\ ~Top.exprBody
  /\ ctl.k = "ret"
  /\ ctl.v.t # "ReturnSignal"
  /\ Len(Top.rest) > 0
  /\ ctl' = Exec(Top.rest[1], Top.env)
  /\ kont' = Append(Pop, [Top EXCEPT !.rest = Tail(@)])
  /\ UNCHANGED <<code, pc, stepCount, webApiIdCounter, pendingTimers, pendingMicrotasks,
                 envs, tracer, err, timersToProcess, moveIdx, result, previous, calls,
                 app, visualizer>>

\* invokeFunction: the body is done and whatever its last statement gave,
\* a signal object included, is the value of the call
InvokeEndKeepsSignal ==
  /\ TopIs("invoke")
  /\ ctl.k = "ret"
  /\ (Top.exprBody \/ ctl.v.t = "ReturnSignal" \/ Len(Top.rest) = 0)
  /\ tracer' = addStep(popCall(tracer), "return",
                       Top.callee.name \o "() returned " \o fmt(ctl.v))
  /\ ctl' = ctl
  /\ kont' = Pop
  /\ UNCHANGED <<code, err, pc, stepCount, webApiIdCounter, pendingTimers, pendingMicrotasks,
                 envs, timersToProcess, moveIdx, result, previous, calls, app, visualizer>>

\* invokeFunction: the body is done (a ReturnSignal, the last statement, or
\* the value of an expression body); the frame is popped, the step recorded
InvokeEnd ==
  /\ TopIs("invoke")
  /\ ctl.k = "ret"
  /\ (Top.exprBody \/ ctl.v.t = "ReturnSignal" \/ Len(Top.rest) = 0)
  /\ LET res == IF ctl.v.t = "ReturnSignal" THEN ctl.v.value ELSE ctl.v
         tr1 == IF Top.exprBody THEN addStep(tracer, "return", "Return " \o fmt(res))
                ELSE tracer
     IN /\ tracer' = addStep(popCall(tr1), "return",
                             Top.callee.name \o "() returned " \o fmt(res))
        /\ ctl' = Ret(res)
  /\ kont' = Pop
  /\ UNCHANGED <<code, err, pc, stepCount, webApiIdCounter, pendingTimers, pendingMicrotasks,
                 envs, timersToProcess, moveIdx, result, previous, calls, app, visualizer>>

\* ------------------------------------------------------------------------
\* processAsyncQueues
\* ------------------------------------------------------------------------
\* one turn of a microtask loop (phase 1, and the drain after a macrotask)
RunMicrotask ==
  /\ AtLoop
  /\ Len(pendingMicrotasks) > 0
  /\ ~LimitReached
  /\ stepCount' = stepCount + 1
  /\ pendingMicrotasks' = Tail(pendingMicrotasks)
  /\ LET task == pendingMicrotasks[1]
         tr == addStep(setEventLoopPhase(removeFromMicrotaskQueue(tracer), "microtask"),
                       "eventloop", "Event Loop: Processing microtask - " \o task.label)
     IN invokeFunction(tr, task.tracedFn, task.tracedFn.name,
                       IF task.resolvedValue # Undefined THEN <<task.resolvedValue>>
                       ELSE <<>>, Null)
  /\ UNCHANGED <<code, err, pc, webApiIdCounter, pendingTimers, timersToProcess, moveIdx,
                 result, previous, calls, app, visualizer>>

\* Phase 1: process all microtasks first
Phase1Microtask ==
  /\ pc = "phase1"
  /\ RunMicrotask

\* Phase 2 begun without waiting for the microtasks to run out
Phase2StartEarly ==
  /\ pc = "phase1"
  /\ AtLoop
  /\ timersToProcess' = pendingTimers
  /\ pendingTimers' = <<>>
  /\ moveIdx' = 1
  /\ pc' = "phase2"
  /\ ctl' = None
  /\ UNCHANGED <<code, err, kont, stepCount, webApiIdCounter, pendingMicrotasks, envs, tracer,
                 result, previous, calls, app, visualizer>>

\* Phase 2 begins: timersToProcess = [...pendingTimers]; pendingTimers.length = 0
Phase2Start ==
  /\ pc = "phase1"
  /\ AtLoop
  /\ Len(pendingMicrotasks) = 0
  /\ timersToProcess' = pendingTimers
  /\ pendingTimers' = <<>>
  /\ moveIdx' = 1
  /\ pc' = "phase2"
  /\ ctl' = None
  /\ UNCHANGED <<code, err, kont, stepCount, webApiIdCounter, pendingMicrotasks, envs, tracer,
                 result, previous, calls, app, visualizer>>

\* Phase 2: one timer moves from the Web APIs to the callback queue
Phase2MoveTimer ==
  /\ pc = "phase2"
  /\ moveIdx <= Len(timersToProcess)
  /\ ~LimitReached
  /\ ctl.k = "none"
  /\ stepCount' = stepCount + 1
  /\ LET timer == timersToProcess[moveIdx] IN
       tracer' = addStep(setEventLoopPhase(
                   addToCallbackQueue(removeWebApi(tracer, timer.id), timer.label),
                   "timer-complete"), "eventloop",
                   "Timer done: " \o timer.label
                   \o " - callback moved from Web APIs -> Callback Queue")
  /\ moveIdx' = moveIdx + 1
  /\ UNCHANGED <<code, err, pc, ctl, kont, webApiIdCounter, pendingTimers, pendingMicrotasks,
                 envs, timersToProcess, result, previous, calls, app, visualizer>>

\* Phase 2 is over
Phase3Start ==
  /\ pc = "phase2"
  /\ moveIdx > Len(timersToProcess)
  /\ ctl.k = "none"
  /\ pc' = "phase3"
  /\ UNCHANGED <<code, ctl, kont, stepCount, webApiIdCounter, pendingTimers,
                 pendingMicrotasks, envs, tracer, err, timersToProcess, moveIdx, result,
                 previous, calls, app, visualizer>>

\* Phase 3: one callback leaves the callback queue and runs
Phase3Callback ==
  /\ pc = "phase3"
  /\ AtLoop
  /\ Len(tracer.callbackQueue) > 0
  /\ ~LimitReached
  /\ stepCount' = stepCount + 1
  /\ IF Len(timersToProcess) = 0
     THEN \* if (!timer) break
          /\ tracer' = removeFromCallbackQueue(tracer)
          /\ pc' = "phase4"
          /\ ctl' = None
          /\ UNCHANGED <<timersToProcess, envs, kont>>
     ELSE /\ timersToProcess' = Tail(timersToProcess)
          /\ pc' = "drain"
          /\ LET timer == timersToProcess[1]
                 tr == addStep(setEventLoopPhase(removeFromCallbackQueue(tracer), "callback"),
                         "eventloop",
                         "Event Loop: Call stack is empty - processing callback from queue")
             IN IF timer.tracedFn.t = "TracedFunction"
                THEN invokeFunction(tr, timer.tracedFn, timer.tracedFn.name, <<>>, Null)
                ELSE /\ tracer' = tr
                     /\ ctl' = None
                     /\ UNCHANGED <<envs, kont>>
  /\ UNCHANGED <<code, err, webApiIdCounter, pendingTimers, pendingMicrotasks, moveIdx, result,
                 previous, calls, app, visualizer>>

\* Phase 3: drain microtasks after each macrotask
DrainMicrotask ==
  /\ pc = "drain"
  /\ RunMicrotask

\* the drain given up after the macrotask, microtasks still pending
DrainDoneEarly ==
  /\ pc = "drain"
  /\ AtLoop
  /\ pc' = "phase3"
  /\ ctl' = None
  /\ UNCHANGED <<code, kont, stepCount, webApiIdCounter, pendingTimers, pendingMicrotasks,
                 envs, tracer, err, timersToProcess, moveIdx, result, previous, calls,
                 app, visualizer>>

\* the drain after a macrotask is over
DrainDone ==
  /\ pc = "drain"
  /\ AtLoop
  /\ Len(pendingMicrotasks) = 0
  /\ pc' = "phase3"
  /\ ctl' = None
  /\ UNCHANGED <<code, kont, stepCount, webApiIdCounter, pendingTimers, pendingMicrotasks,
                 envs, tracer, err, timersToProcess, moveIdx, result, previous, calls,
                 app, visualizer>>

\* Phase 3 is over
Phase3Done ==
  /\ pc = "phase3"
  /\ AtLoop
  /\ Len(tracer.callbackQueue) = 0
  /\ pc' = "phase4"
  /\ ctl' = None
  /\ UNCHANGED <<code, kont, stepCount, webApiIdCounter, pendingTimers, pendingMicrotasks,
                 envs, tracer, err, timersToProcess, moveIdx, result, previous, calls,
                 app, visualizer>>

\* an event loop that goes round again while timers are pending
ProcessAsyncQueuesAgain ==
  /\ pc = "phase4"
  /\ tracer' = IF Len(timersToProcess) > 0 \/ Len(pendingMicrotasks) > 0
               THEN addStep(setEventLoopPhase(tracer, "idle"), "eventloop",
                            "Event Loop: All queues processed")
               ELSE tracer
  /\ pc' = IF Len(pendingTimers) > 0 THEN "afterSync" ELSE "return"
  /\ UNCHANGED <<code, err, ctl, kont, stepCount, webApiIdCounter, pendingTimers,
                 pendingMicrotasks, envs, timersToProcess, moveIdx, result, previous, calls,
                 app, visualizer>>

\* the idle step, recorded if timersToProcess or pendingMicrotasks is not
\* empty; processAsyncQueues and generateTrace return
ProcessAsyncQueuesEnd ==
  /\ pc = "phase4"
  /\ tracer' = IF Len(timersToProcess) > 0 \/ Len(pendingMicrotasks) > 0
               THEN addStep(setEventLoopPhase(tracer, "idle"), "eventloop",
                            "Event Loop: All queues processed")
               ELSE tracer
  /\ pc' = "return"
  /\ UNCHANGED <<code, err, ctl, kont, stepCount, webApiIdCounter, pendingTimers,
                 pendingMicrotasks, envs, timersToProcess, moveIdx, result, previous, calls,
                 app, visualizer>>

\* the keys of phaseConfig: the phases the event-loop panel renders
phaseConfig == {"idle", "executing", "microtasks", "macrotasks"}

\* ------------------------------------------------------------------------
\* The specification
\* ------------------------------------------------------------------------
Next ==
  \/ ExecuteCodeEmpty
  \/ ExecuteCodeCall
  \/ ExecuteCodeReturn
  \/ ExecuteCodeCatch
  \/ CallAgain
  \/ GenerateTraceStart
  \/ GenerateTraceCatch
  \/ CheckStepLimitFail
  \/ ExecProgramNext
  \/ ExecProgramEnd
  \/ AfterSync
  \/ ExecVariableDeclaration
  \/ VariableDeclarationBind
  \/ ExecExpressionStatement
  \/ ExecFunctionDeclaration
  \/ ExecBlockStatement
  \/ BlockNext
  \/ BlockEnd
  \/ ExecWhileStatement
  \/ WhileIteration
  \/ WhileAfterBody
  \/ ExecForStatement
  \/ ForIteration
  \/ ForAfterBody
  \/ ExecForOfInStatement
  \/ ForOfInIteration
  \/ ForOfInAfterBody
  \/ ExecReturnStatement
  \/ ExecBreakStatement
  \/ ExecContinueStatement
  \/ ExecIfStatement
  \/ IfAfterBranch
  \/ ExecSwitchStatement
  \/ SwitchNext
  \/ SwitchEnd
  \/ ExecThrowStatement
  \/ ExecTryStatement
  \/ TryAfterBlock
  \/ TryCatch
  \/ TryRethrow
  \/ TryAfterHandler
  \/ TryAfterFinalizer
  \/ Unwind
  \/ EvalPure
  \/ EvalUpdate
  \/ EvalTypeof
  \/ TypeofEnd
  \/ EvalCallArgsThrow
  \/ EvalCallConsole
  \/ handleSetTimeout
  \/ EvalCallThen
  \/ handlePromiseThen
  \/ evalMethodCall
  \/ EvalCallFunction
  \/ EvalNewExpression
  \/ HandleNewPromiseInvoke
  \/ HandleNewPromiseEnd
  \/ InvokeNext
  \/ InvokeEnd
  \/ Phase1Microtask
  \/ Phase2Start
  \/ Phase2MoveTimer
  \/ Phase3Start
  \/ Phase3Callback
  \/ DrainMicrotask
  \/ DrainDone
  \/ Phase3Done
  \/ ProcessAsyncQueuesEnd

Spec == Init /\ [][Next]_vars

\* executeCode is one synchronous call: once entered it runs to its return.
\* Only the caller's next call (CallAgain) is not bound to happen.
Interpret == Next /\ pc # "done"

\* the runs of the fixed programs, under that fairness
InitFixed ==
  /\ Init
  /\ code \in EmptySources \cup MalformedSources
              \cup {StringSource("", ParsedOk(b), "") : b \in FixedPrograms}

FairSpec == InitFixed /\ [][Next]_vars /\ WF_vars(Interpret)

\* ------------------------------------------------------------------------
\* Playback: App.jsx with ExecutionControls.jsx, and useVisualizer.js
\* ------------------------------------------------------------------------
\* Math.min, Math.max
Min(a, b) == IF a <= b THEN a ELSE b

Max(a, b) == IF a >= b THEN a ELSE b

\* the arrays executeCode may return as result.steps (steps named by position)
Traces == {[k \in 1..n |-> k] : n \in 0..MaxTrace}

interpreter ==
  <<code, pc, ctl, kont, stepCount, webApiIdCounter, pendingTimers, pendingMicrotasks,
    envs, tracer, err, timersToProcess, moveIdx, result, previous, calls>>

\* ExecutionControls: const hasSteps, atStart, atEnd
hasSteps(totalSteps) == totalSteps > 0

atStart(currentStep) == currentStep <= 0

atEnd(currentStep, totalSteps) == totalSteps = 0 \/ currentStep >= totalSteps - 1

\* ExecutionControls: the disabled attribute of the transport buttons
GoToStartDisabled(currentStep, totalSteps) == ~hasSteps(totalSteps) \/ atStart(currentStep)

StepBackwardDisabled(currentStep, totalSteps) == ~hasSteps(totalSteps) \/ atStart(currentStep)

TogglePlayDisabled(isPlaying, currentStep, totalSteps) ==
  ~hasSteps(totalSteps) \/ (~isPlaying /\ atEnd(currentStep, totalSteps))

\* a step-forward button that is never disabled
StepForwardEnabledAlways(currentStep, totalSteps) == FALSE

StepForwardDisabled(currentStep, totalSteps) ==
  ~hasSteps(totalSteps) \/ atEnd(currentStep, totalSteps)

GoToEndDisabled(currentStep, totalSteps) ==
  ~hasSteps(totalSteps) \/ atEnd(currentStep, totalSteps)

\* App: const totalSteps = trace.length
totalSteps == Len(app.trace)

\* App, auto-play effect without its else branch: playback goes on at the end
autoPlayEffectNeverStops(a) == a

\* App, auto-play effect, run after every render: at the last step (or beyond
\* it) setIsPlaying(false); before it the timer of the next tick is set
autoPlayEffect(a) ==
  IF a.isPlaying /\ ~(a.currentStepIndex < Len(a.trace) - 1)
  THEN [a EXCEPT !.isPlaying = FALSE]
  ELSE a

\* App.handleRun: setIsPlaying(false); setTrace(result.steps || []);
\* setCurrentStepIndex(0); the catch branch sets the empty trace
handleRun ==
  /\ \E steps \in Traces :
       app' = autoPlayEffect([trace |-> steps, currentStepIndex |-> 0, isPlaying |-> FALSE])
  /\ UNCHANGED <<interpreter, visualizer>>

\* App.handleExampleSelect
handleExampleSelect ==
  /\ app' = autoPlayEffect([trace |-> <<>>, currentStepIndex |-> 0, isPlaying |-> FALSE])
  /\ UNCHANGED <<interpreter, visualizer>>

\* App.onStepForward behind its button
onStepForward ==
  /\ ~StepForwardDisabled(app.currentStepIndex, totalSteps)
  /\ app' = autoPlayEffect([app EXCEPT !.currentStepIndex = Min(@ + 1, totalSteps - 1)])
  /\ UNCHANGED <<interpreter, visualizer>>

\* App.onStepBackward behind its button
onStepBackward ==
  /\ ~StepBackwardDisabled(app.currentStepIndex, totalSteps)
  /\ app' = autoPlayEffect([app EXCEPT !.currentStepIndex = Max(@ - 1, 0)])
  /\ UNCHANGED <<interpreter, visualizer>>

\* App.onGoToStart behind its button
onGoToStart ==
  /\ ~GoToStartDisabled(app.currentStepIndex, totalSteps)
  /\ app' = autoPlayEffect([app EXCEPT !.currentStepIndex = 0, !.isPlaying = FALSE])
  /\ UNCHANGED <<interpreter, visualizer>>

\* App.onGoToEnd behind its button
onGoToEnd ==
  /\ ~GoToEndDisabled(app.currentStepIndex, totalSteps)
  /\ app' = autoPlayEffect([app EXCEPT !.currentStepIndex = Max(totalSteps - 1, 0),
                                       !.isPlaying = FALSE])
  /\ UNCHANGED <<interpreter, visualizer>>

\* App.onTogglePlay behind its button
onTogglePlay ==
  /\ ~TogglePlayDisabled(app.isPlaying, app.currentStepIndex, totalSteps)
  /\ app' = autoPlayEffect(
       [app EXCEPT !.currentStepIndex =
                     IF ~app.isPlaying /\ app.currentStepIndex >= totalSteps - 1
                        /\ totalSteps > 0
                     THEN 0 ELSE @,
                   !.isPlaying = ~@])
  /\ UNCHANGED <<interpreter, visualizer>>

\* ExecutionControls, the range input over the progress bar (rendered when
\* hasSteps): onStepForward or onStepBackward once per position up to target
Scrub ==
  /\ hasSteps(totalSteps)
  /\ \E target \in 0..Max(totalSteps - 1, 0) :
       app' = autoPlayEffect(
         [app EXCEPT !.currentStepIndex =
            IF target > @ THEN Min(target, totalSteps - 1)
            ELSE IF target < @ THEN Max(target, 0)
            ELSE @])
  /\ UNCHANGED <<interpreter, visualizer>>

\* App, the timer set by the auto-play effect fires
AutoPlayTick ==
  /\ app.isPlaying
  /\ app.currentStepIndex < totalSteps - 1
  /\ app' = autoPlayEffect([app EXCEPT !.currentStepIndex = Min(@ + 1, totalSteps - 1)])
  /\ UNCHANGED <<interpreter, visualizer>>

\* useVisualizer.run
run ==
  /\ \E steps \in Traces :
       visualizer' = [steps |-> steps, currentStep |-> 0, isPlaying |-> FALSE]
  /\ UNCHANGED <<interpreter, app>>

\* useVisualizer.stepForward
stepForward ==
  /\ visualizer' =
       IF visualizer.currentStep < Len(visualizer.steps) - 1
       THEN [visualizer EXCEPT !.currentStep = @ + 1]
       ELSE [visualizer EXCEPT !.isPlaying = FALSE]
  /\ UNCHANGED <<interpreter, app>>

\* useVisualizer.stepBackward
stepBackward ==
  /\ visualizer' = [visualizer EXCEPT !.currentStep = Max(0, @ - 1)]
  /\ UNCHANGED <<interpreter, app>>

\* useVisualizer.goToStart
goToStart ==
  /\ visualizer' = [visualizer EXCEPT !.currentStep = 0, !.isPlaying = FALSE]
  /\ UNCHANGED <<interpreter, app>>

\* useVisualizer.goToEnd
goToEnd ==
  /\ visualizer' =
       [visualizer EXCEPT !.currentStep = IF Len(visualizer.steps) > 0
                                          THEN Len(visualizer.steps) - 1 ELSE @,
                          !.isPlaying = FALSE]
  /\ UNCHANGED <<interpreter, app>>

\* useVisualizer.goToStep(stepIndex), for indexes in and out of range
goToStep ==
  /\ \E stepIndex \in -1..(MaxTrace + 1) :
       visualizer' =
         IF stepIndex >= 0 /\ stepIndex < Len(visualizer.steps)
         THEN [visualizer EXCEPT !.currentStep = stepIndex]
         ELSE visualizer
  /\ UNCHANGED <<interpreter, app>>

\* useVisualizer.togglePlay
togglePlay ==
  /\ visualizer' =
       [visualizer EXCEPT !.currentStep =
                            IF ~visualizer.isPlaying
                               /\ visualizer.currentStep >= Len(visualizer.steps) - 1
                               /\ Len(visualizer.steps) > 0
                            THEN 0 ELSE @,
                          !.isPlaying = ~@]
  /\ UNCHANGED <<interpreter, app>>

\* useVisualizer.pause
pause ==
  /\ visualizer' = [visualizer EXCEPT !.isPlaying = FALSE]
  /\ UNCHANGED <<interpreter, app>>

\* useVisualizer.reset
reset ==
  /\ visualizer' = VisualizerInitial
  /\ UNCHANGED <<interpreter, app>>

\* useVisualizer, auto-play effect: the interval exists while isPlaying and
\* steps.length is not 0; this is one firing of it
IntervalTick ==
  /\ visualizer.isPlaying
  /\ Len(visualizer.steps) # 0
  /\ visualizer' =
       IF visualizer.currentStep >= Len(visualizer.steps) - 1
       THEN [visualizer EXCEPT !.isPlaying = FALSE]
       ELSE [visualizer EXCEPT !.currentStep = @ + 1]
  /\ UNCHANGED <<interpreter, app>>

PlaybackNext ==
  \/ handleRun
  \/ handleExampleSelect
  \/ onStepForward
  \/ onStepBackward
  \/ onGoToStart
  \/ onGoToEnd
  \/ onTogglePlay
  \/ Scrub
  \/ AutoPlayTick
  \/ run
  \/ stepForward
  \/ stepBackward
  \/ goToStart
  \/ goToEnd
  \/ goToStep
  \/ togglePlay
  \/ pause
  \/ reset
  \/ IntervalTick

\* the controllers as mounted, the editor empty
PlaybackInit == Init /\ code = StringSource("", NoText, "")

PlaybackSpec == PlaybackInit /\ [][PlaybackNext]_vars

\* ------------------------------------------------------------------------
\* Properties
\* ------------------------------------------------------------------------
Last(s) == s[Len(s)]

Done == pc = "done"

\* the source with no white space around the program
Src(body) == StringSource("", ParsedOk(body), "")

\* the steps executeCode returned, and the steps the tracer holds
ResultSteps == StepsOf(tracer, result.steps)

TracerSteps == StepsOf(tracer, tracer.steps)

\* the last step executeCode returned (of a result that has steps)
LastStep == tracer.objects[Last(result.steps)]

\* the console output recorded by the last step of the returned trace
RecordedConsole ==
  IF Len(result.steps) = 0 THEN <<>> ELSE LastStep.consoleOutput

Styles == {"arrow", "function"}

\* the positions of an operation in a sequence of operations, ascending
Positions(ops, op) == SelectSeq([p \in 1..Len(ops) |-> p], LAMBDA p : ops[p] = op)

Labels(ps) == [i \in 1..Len(ps) |-> ToString(ps[i])]

\* programs of synchronous logs, zero-delay timers and single .then callbacks
PlainOpSeqs ==
  UNION {[1..n -> {"log", "timer", "then"}] : n \in 1..MaxBody} \cup {MixedAsyncOps}

\* synchronous logs in source order, then microtasks, then timers
OrderingLaw(ops) ==
  Labels(Positions(ops, "log") \o Positions(ops, "then") \o Positions(ops, "timer"))

\* C1: a program with synchronous logs, zero-delay setTimeout callbacks and
\* Promise.resolve().then callbacks records the synchronous logs in source
\* order, then the .then logs, then the timer logs; for console.log(1);
\* setTimeout(..2..,0); Promise.resolve().then(..3..); console.log(4) the
\* recorded console output is exactly 1, 4, 3, 2.
C1_OrderingLaw ==
  Done =>
    /\ \A style \in Styles : \A ops \in PlainOpSeqs :
         code = Src(AsyncProgram(ops, style)) =>
           result.error = Null /\ RecordedConsole = OrderingLaw(ops)
    /\ code = Src(AsyncProgram(MixedAsyncOps, "arrow")) =>
         RecordedConsole = <<"1", "4", "3", "2">>

C1_Witness ==
  /\ Done
  /\ code = Src(AsyncProgram(MixedAsyncOps, "arrow"))
  /\ RecordedConsole = <<"1", "4", "3", "2">>

\* programs of synchronous logs, zero-delay timers and one chain of two .then
ChainOpSeqs ==
  {ops \in UNION {[1..n -> {"log", "timer", "chain"}] : n \in 1..MaxBody} :
     Len(Positions(ops, "chain")) = 1}

\* the callback B of the chain at position p logs p + 10
ChainLaw(ops) ==
  LET c == Positions(ops, "chain")[1] IN
    Labels(Positions(ops, "log") \o <<c, c + 10>> \o Positions(ops, "timer"))

\* the function logging v is the callback of the i-th pending microtask
PendingLogs(i, style, v) ==
  /\ pendingMicrotasks[i].tracedFn.t = "TracedFunction"
  /\ pendingMicrotasks[i].tracedFn.body = LogCallback(style, v).body

\* C2: for Promise.resolve().then(A).then(B) both callbacks are enqueued
\* during the synchronous phase, A ahead of B, and both run in that order
\* after all synchronous code and before any timer callback; for the chain
\* logging "a" and "b" followed by console.log("c") the recorded console
\* output is c, a, b.
C2_ChainedMicrotasks ==
  /\ (pc = "afterSync" /\ code = Src(ChainProgram)) =>
       /\ Len(pendingMicrotasks) = 2
       /\ Len(tracer.microtaskQueue) = 2
       /\ PendingLogs(1, "arrow", Str("a"))
       /\ PendingLogs(2, "arrow", Str("b"))
       /\ tracer.consoleOutput = <<"\"c\"">>
  /\ Done =>
       /\ code = Src(ChainProgram) =>
            result.error = Null /\ RecordedConsole = <<"\"c\"", "\"a\"", "\"b\"">>
       /\ \A style \in Styles : \A ops \in ChainOpSeqs :
            code = Src(AsyncProgram(ops, style)) =>
              result.error = Null /\ RecordedConsole = ChainLaw(ops)

C2_Witness ==
  /\ Done
  /\ code = Src(ChainProgram)
  /\ RecordedConsole = <<"\"c\"", "\"a\"", "\"b\"">>

\* C3: in for (let i = 0; i < n; i++) { funcs.push(function () { console.log(i) }) }
\* each stored closure, called after the loop, reports the value i had in its
\* own iteration: 0, 1, ..., n - 1.
C3_LetLoopCapture ==
  Done =>
    \A n \in 1..MaxLoop :
      code = Src(ClosureLoopProgram("let", n)) =>
        result.error = Null /\ RecordedConsole = [k \in 1..n |-> ToString(k - 1)]

\* the environments that hold a binding of name
Binders(name) == {e \in 1..Len(envs) : name \in DOMAIN envs[e].vars}

\* C4: in for (var i = 0; i < n; i++) { funcs.push(function () { console.log(i) }) }
\* there is one binding of i for all closures and every stored closure,
\* called after the loop, reports the final value n.
C4_VarLoopCapture ==
  \A n \in 1..MaxLoop :
    code = Src(ClosureLoopProgram("var", n)) =>
      /\ Cardinality(Binders("i")) <= 1
      /\ Done => /\ result.error = Null
                 /\ RecordedConsole = [k \in 1..n |-> ToString(n)]

C4_Witness ==
  /\ Done
  /\ code = Src(ClosureLoopProgram("var", MaxLoop))
  /\ Len(RecordedConsole) = MaxLoop
  /\ \A k \in 1..MaxLoop : RecordedConsole[k] = ToString(MaxLoop)

\* the steps array ends in the error step of the step ceiling
EndsAtCeiling(steps) ==
  /\ Len(steps) > 0
  /\ tracer.objects[Last(steps)].type = "error"
  /\ tracer.objects[Last(steps)].description =
       "Execution limit reached (" \o ToString(MAX_STEPS)
       \o " steps). Possible infinite loop or code too complex."

C6_StepCeilingSignalling ==
  (Done /\ err = StepLimitError) =>
    /\ EndsAtCeiling(result.steps)
    /\ result.error = Str(LastStep.description)

\* the run ended in an error thrown by the interpretation of a parsed program
RuntimeFailure == err # NoErr /\ err # StepLimitError /\ code.text.ok

\* every step the tracer recorded that is no error step is in the result
KeptSteps ==
  \A k \in 1..Len(tracer.steps) :
    tracer.objects[tracer.steps[k]].type # "error" =>
      (k <= Len(result.steps) /\ result.steps[k] = tracer.steps[k])

\* C7: every run that failed with an uncaught runtime error returns from
\* executeCode the steps recorded before the failure, a last step of type
\* error, and a non-null error string.
C7_RuntimeFailureSignalling ==
  (Done /\ RuntimeFailure) =>
    /\ KeptSteps
    /\ Len(result.steps) > 0
    /\ LastStep.type = "error"
    /\ result.error # Null

\* C8: for a source that does not parse executeCode returns zero steps and an
\* error string holding the line and the column of the syntax error.
C8_ParseFailureSignalling ==
  (Done /\ code \in MalformedSources) =>
    /\ result.steps = <<>>
    /\ result.error \in {Str(prefix \o SyntaxErrorMessage(code.text.loc)) :
                           prefix \in {"", "Runtime Error: "}}

\* C9: every outcome of executeCode is a value {steps, error}; error is
\* non-null exactly when the last step has type error, and then error is that
\* step's description and the steps before it are kept.
C9_ErrorIffLastStepError ==
  Done =>
    /\ result # NoResult
    /\ (result.error # Null) <=>
         (Len(result.steps) > 0 /\ LastStep.type = "error")
    /\ (result.error # Null) =>
         (/\ Len(result.steps) > 0
          /\ result.error = Str(LastStep.description)
          /\ KeptSteps)

\* C10: for a source that is empty, white space only or no string, executeCode
\* returns {steps: [], error: null}, nothing is parsed or interpreted, and a
\* second call returns the same.
C10_EmptyInput ==
  code \in EmptySources =>
    /\ pc \in {"executeCode", "done"}
    /\ tracer = createTracer /\ envs = <<>> /\ stepCount = 0 /\ err = NoErr
    /\ Done => result = Result(<<>>, Null)
    /\ (Done /\ previous # NoResult) => previous = result

C10_Witness ==
  /\ Done
  /\ code = StringSource("\n \t", NoText, "")
  /\ calls = MaxCalls
  /\ previous = Result(<<>>, Null)
  /\ result = previous

\* the state generateTrace starts from: its locals as their declarations
\* leave them
FreshRun ==
  /\ stepCount = 0
  /\ webApiIdCounter = 1
  /\ tracer.heapIdCounter = 1
  /\ tracer.steps = <<>>
  /\ tracer.callStack = <<>>
  /\ tracer.consoleOutput = <<>>
  /\ tracer.webApis = <<>>
  /\ tracer.callbackQueue = <<>>
  /\ tracer.microtaskQueue = <<>>
  /\ tracer.memoryHeap = <<>>
  /\ pendingTimers = <<>>
  /\ pendingMicrotasks = <<>>
  /\ envs = <<>>

\* C11: two runs of executeCode on the same source return identical step
\* sequences and identical error values, and every run starts from fresh
\* state (step counter 0, heap id counter 1, web-API id counter 1, empty
\* queues, empty console).
C11_Determinism ==
  /\ pc = "generateTrace" => FreshRun
  /\ (Done /\ previous # NoResult) =>
       /\ StepsOf(tracer, previous.steps) = StepsOf(tracer, result.steps)
       /\ previous.error = result.error

\* the part of C11 that holds: a later run starts from fresh state, and
\* programs that do not call Math.random() repeat their trace
C11_DeterminismWithoutRandom ==
  /\ pc = "generateTrace" => FreshRun
  /\ (Done /\ previous # NoResult /\ code # Src(RandomProgram)) =>
       /\ StepsOf(tracer, previous.steps) = StepsOf(tracer, result.steps)
       /\ previous.error = result.error

\* the number of steps of a type among the steps recorded so far
CountSteps(type) ==
  Cardinality({k \in 1..Len(tracer.steps) : tracer.objects[tracer.steps[k]].type = type})

\* C12: at every step of every trace, the recorded call-stack depth equals
\* the number of 'call' steps recorded so far minus the number of 'return'
\* steps recorded so far, and the depth is never negative.
C12_CallStackBalance ==
  (pc \notin {"executeCode", "done"} /\ Len(tracer.steps) > 0) =>
    LET depth == Len(tracer.objects[Last(tracer.steps)].callStack) IN
      /\ depth = CountSteps("call") - CountSteps("return")
      /\ depth >= 0

\* C12 with the frame of main() left out of the depth
C12_BalanceAboveMain ==
  (pc \notin {"executeCode", "done"} /\ Len(tracer.steps) > 0) =>
    LET callStack == tracer.objects[Last(tracer.steps)].callStack IN
      Len(SelectSeq(callStack, LAMBDA f : f # "main()"))
        = CountSteps("call") - CountSteps("return")

\* generateTrace is running: between the call from executeCode and its return
InGenerateTrace ==
  pc \in {"generateTrace", "sync", "afterSync", "phase1", "phase2", "phase3", "drain",
          "phase4"}

\* s is an initial segment of t
IsPrefix(s, t) == Len(s) <= Len(t) /\ SubSeq(t, 1, Len(s)) = s

RunawayPrograms == {WhileTrueProgram, ForEverProgram, NestedWhileProgram, RecursionProgram}

\* C14: every repetition in an interpreted program advances the step
\* counter (so there are never more invocations recorded than steps
\* counted), and every program that would run forever is ended by the
\* step-limit error after at most MAX_STEPS counted steps.
C14_UniformCeiling ==
  /\ InGenerateTrace => CountSteps("call") <= stepCount
  /\ (pc = "return" /\ code \in {Src(p) : p \in RunawayPrograms}) =>
       /\ err = StepLimitError
       /\ stepCount <= MAX_STEPS

\* the part of C14 that holds: the loops are ended by the step-limit error
C14_LoopsReachCeiling ==
  (pc = "return" /\ code \in {Src(p) : p \in RunawayPrograms \ {RecursionProgram}}) =>
    /\ err = StepLimitError
    /\ stepCount = MAX_STEPS

\* the run of const f = () => f(); f() ends with the host's RangeError, the
\* step counter far below the ceiling
C14_RecursionEndsInRangeError ==
  /\ pc = "return"
  /\ code = Src(RecursionProgram)
  /\ err = ErrorObj("RangeError", "Maximum call stack size exceeded")
  /\ stepCount = 2
  /\ tracer.objects[Last(tracer.steps)].description
       = "Runtime Error: Maximum call stack size exceeded"

\* the programs of the model in which the interpreter itself raises a
\* failure: an unbound identifier, a call of a non-function, the step limit
InterpreterFailurePrograms ==
  {UnboundProgram, NotFunctionProgram, WhileTrueProgram, ForEverProgram, TryUnboundProgram}

\* the values bound by the catch clauses entered so far
CaughtValues ==
  {envs[i].vars[n].value : n \in {"e"},
     i \in {j \in 1..Len(envs) : envs[j].name = "catch" /\ "e" \in DOMAIN envs[j].vars}}

\* C15: a failure raised by the interpreter (unbound identifier, call of a
\* non-function, step-limit error) is never delivered to a catch handler of
\* the interpreted program, and ends the run with a single error reported
\* by executeCode; only a value thrown by a throw statement is caught.
C15_OnlyThrownValuesCaught ==
  /\ \A v \in CaughtValues : v.t # "Error"
  /\ (Done /\ code \in {Src(p) : p \in InterpreterFailurePrograms}) =>
       /\ result.error # Null
       /\ Cardinality({k \in 1..Len(result.steps) :
                         tracer.objects[result.steps[k]].type = "error"}) = 1

\* the run of try { x } catch (e) { ... } ends without an error, the handler
\* having run on "x is not defined"
C15_UnboundCaught ==
  /\ Done
  /\ code = Src(TryUnboundProgram)
  /\ result.error = Null
  /\ CaughtValues = {ErrorObj("Error", "x is not defined")}
  /\ RecordedConsole = <<"\"caught\"", "\"after\"">>

\* a pending timer moves to the callback queue in this step
TimerMoves == Len(tracer'.callbackQueue) > Len(tracer.callbackQueue)

\* a macrotask callback is taken up in this step: const timer = timersToProcess.shift()
MacrotaskStarts == InGenerateTrace /\ Len(timersToProcess') < Len(timersToProcess)

\* C16: the microtask drain is a fixpoint: a microtask enqueued while
\* another microtask runs is itself run before any pending timer moves to
\* the callback queue and before any macrotask callback starts; no macrotask
\* callback starts while the list of pending microtasks is non-empty.
C16_MicrotaskFixpoint ==
  [][(TimerMoves \/ MacrotaskStarts) => pendingMicrotasks = <<>>]_vars

\* m2, enqueued while the microtask m1 ran, has run; both timers still wait
\* in the Web APIs and nothing is in the callback queue
C16_Witness ==
  /\ code = Src(NestedAsyncProgram)
  /\ pc = "phase1"
  /\ tracer.consoleOutput = <<"\"end\"", "\"m1\"", "\"m2\"">>
  /\ Len(tracer.webApis) = 2
  /\ Len(pendingTimers) = 2
  /\ tracer.callbackQueue = <<>>
  /\ pendingMicrotasks = <<>>

\* C17: macrotasks run one at a time with a full microtask drain in
\* between: after a macrotask callback has finished, every microtask it
\* enqueued, and every microtask those enqueue, runs before the next
\* macrotask callback starts.
C17_DrainBetweenMacrotasks ==
  [][(InGenerateTrace /\ Len(timersToProcess') < Len(timersToProcess)) =>
       /\ Len(timersToProcess') = Len(timersToProcess) - 1
       /\ kont = <<>>
       /\ pendingMicrotasks = <<>>
       /\ tracer.microtaskQueue = <<>>]_vars

\* the first macrotask t1, its microtask and the microtask that one
\* enqueued have run; the second macrotask still waits in the callback queue
C17_Witness ==
  /\ code = Src(NestedAsyncProgram)
  /\ pc = "drain"
  /\ tracer.consoleOutput
       = <<"\"end\"", "\"m1\"", "\"m2\"", "\"t1\"", "\"t1 m\"", "\"t1 mm\"">>
  /\ Len(tracer.callbackQueue) = 1
  /\ Len(timersToProcess) = 1

\* the elements of a sequence
Range(s) == {s[i] : i \in 1..Len(s)}

\* C18: timers fire in registration order, whatever their delay: pending
\* timers move from the Web-API list to the callback queue in the order of
\* the setTimeout calls (the order of their ids), and their callbacks run in
\* the same first-in first-out order.
C18_TimersInRegistrationOrder ==
  [][/\ TimerMoves =>
          LET moved == Range(tracer.webApis) \ Range(tracer'.webApis) IN
            /\ Cardinality(moved) = 1
            /\ \A w \in moved :
                 /\ \A u \in Range(tracer.webApis) : w.id <= u.id
                 /\ Last(tracer'.callbackQueue) = w.label
     /\ MacrotaskStarts =>
          LET timer == timersToProcess[1] IN
            /\ \A u \in Range(timersToProcess') : timer.id < u.id
            /\ tracer.callbackQueue[1] = timer.label
            /\ timer.tracedFn.t = "TracedFunction" =>
                 Last(kont').callee = timer.tracedFn]_vars

\* setTimeout(t1, 100) followed by setTimeout(t2, 0): t1 has logged before t2
C18_Witness ==
  /\ Done
  /\ code = Src(NestedAsyncProgram)
  /\ RecordedConsole
       = <<"\"end\"", "\"m1\"", "\"m2\"", "\"t1\"", "\"t1 m\"", "\"t1 mm\"", "\"t2\"">>
  /\ \E k \in 1..Len(result.steps) :
       LET webApis == tracer.objects[result.steps[k]].webApis IN
         /\ Len(webApis) = 2
         /\ webApis[1].delay = Num(100) /\ webApis[1].id = 1
         /\ webApis[2].delay = Num(0) /\ webApis[2].id = 2

\* processAsyncQueues is running
InEventLoop == pc \in {"phase1", "phase2", "phase3", "drain", "phase4"}

\* the positions in the trace of the steps of a type
StepsOfType(type) ==
  {k \in 1..Len(tracer.steps) : tracer.objects[tracer.steps[k]].type = type}

\* the positions of the step that announces the call of processAsyncQueues
CheckingSteps ==
  {k \in 1..Len(tracer.steps) :
     tracer.objects[tracer.steps[k]].description
       = "Synchronous code completed - Event Loop checking queues"}

\* C19: run-to-completion: while synchronous code remains to execute, no
\* timer callback and no .then callback is invoked and no queue entry is
\* removed; the event-loop simulation is invoked once, only after the
\* synchronous program body has finished and the 'end' step is recorded.
C19_RunToCompletion ==
  /\ [][pc = "sync" =>
          /\ IsPrefix(pendingMicrotasks, pendingMicrotasks')
          /\ IsPrefix(pendingTimers, pendingTimers')
          /\ IsPrefix(tracer.microtaskQueue, tracer'.microtaskQueue)
          /\ IsPrefix(tracer.webApis, tracer'.webApis)
          /\ tracer'.callbackQueue = <<>>
          /\ timersToProcess' = <<>>]_vars
  /\ [](InEventLoop =>
          /\ \A i \in 1..Len(kont) : kont[i].k # "program"
          /\ Cardinality(StepsOfType("end")) = 1
          /\ Cardinality(CheckingSteps) = 1
          /\ \A k \in StepsOfType("eventloop") : \A e \in StepsOfType("end") : e < k)

\* the synchronous body is at its last statement with a timer and a
\* microtask registered and none of them run or moved
C19_Witness ==
  /\ code = Src(NestedAsyncProgram)
  /\ pc = "sync"
  /\ tracer.consoleOutput = <<"\"end\"">>
  /\ Len(pendingTimers) = 2
  /\ Len(pendingMicrotasks) = 1
  /\ Len(tracer.webApis) = 2
  /\ Len(tracer.microtaskQueue) = 1
  /\ StepsOfType("end") = {}

\* the event loop has run and all asynchronous work is finished: both queues
\* are empty and no timer remains
AsyncWorkFinished ==
  /\ pc = "return"
  /\ err = NoErr
  /\ CheckingSteps # {}
  /\ pendingMicrotasks = <<>> /\ tracer.microtaskQueue = <<>>
  /\ tracer.callbackQueue = <<>>
  /\ pendingTimers = <<>> /\ tracer.webApis = <<>>

\* C20: whenever the event loop has run and finished all asynchronous work
\* (both queues empty and no timers remaining), the trace ends with a step
\* whose event-loop phase is 'idle'.
C20_IdleTerminalPhase ==
  AsyncWorkFinished => tracer.objects[Last(tracer.steps)].eventLoopPhase = "idle"

\* the run of setTimeout(() => console.log(1), 0) has finished its
\* asynchronous work and its last step is in phase 'callback'; no step of the
\* trace is in phase 'idle'
C20_EndsInCallbackPhase ==
  /\ AsyncWorkFinished
  /\ code = Src(AsyncProgram(<<"timer">>, "arrow"))
  /\ tracer.objects[Last(tracer.steps)].eventLoopPhase = "callback"
  /\ \A k \in 1..Len(tracer.steps) :
       tracer.objects[tracer.steps[k]].eventLoopPhase # "idle"

\* no step recorded by generateTrace is ever in phase 'idle'
C20_NeverIdle ==
  InGenerateTrace => tracer.eventLoopPhase # "idle"

\* the positions of the steps that announce the start of a timer callback
CallbackSteps ==
  {k \in 1..Len(tracer.steps) :
     tracer.objects[tracer.steps[k]].description
       = "Event Loop: Call stack is empty - processing callback from queue"}

\* C21: every registered timer eventually fires, a timer registered from
\* inside a timer callback included: when a run that did not fail ends, no
\* Web-API entry and no pending timer remains, and every registered timer
\* has had its callback started exactly once.
C21_EveryTimerFires ==
  (pc = "return" /\ err = NoErr) =>
    /\ tracer.webApis = <<>>
    /\ pendingTimers = <<>>
    /\ Cardinality(CallbackSteps) = webApiIdCounter - 1

\* the run of the program whose timer callback registers a second timer
\* ends with that timer still pending and in the Web APIs, "b" never logged
C21_NestedTimerNeverFires ==
  /\ pc = "return"
  /\ err = NoErr
  /\ code = Src(NestedTimerProgram)
  /\ tracer.consoleOutput = <<"\"a\"">>
  /\ Len(pendingTimers) = 1 /\ pendingTimers[1].id = 2
  /\ Len(tracer.webApis) = 1 /\ tracer.webApis[1].id = 2
  /\ Cardinality(CallbackSteps) = 1

\* the part of C21 that holds: a run in which no timer is registered after
\* phase 2 has begun ends with every timer fired once
C21_TimersOfSyncCodeFire ==
  (pc = "return" /\ err = NoErr /\ pendingTimers = <<>>) =>
    /\ tracer.webApis = <<>>
    /\ Cardinality(CallbackSteps) = webApiIdCounter - 1

\* the second callback of the chain Promise.resolve().then(a).then(b) is
\* among the pending microtasks
SecondCallbackPending ==
  \E i \in 1..Len(pendingMicrotasks) :
    pendingMicrotasks[i].tracedFn.body = LogCallback("arrow", Str("b")).body

\* C22: in a chain p.then(A).then(B), the callback B is added to the
\* microtask queue only after the callback A has run, not when the chain
\* expression is evaluated by the synchronous code.
C22_ChainEnqueuedAfterFirstRuns ==
  (code = Src(ChainProgram) /\ InGenerateTrace /\ SecondCallbackPending) =>
    /\ pc # "sync"
    /\ "\"a\"" \in Range(tracer.consoleOutput)

\* both callbacks of the chain are pending and both entries are in the
\* tracer's microtask queue while the synchronous code still runs, nothing
\* logged yet
C22_BothEnqueuedSynchronously ==
  /\ code = Src(ChainProgram)
  /\ pc = "sync"
  /\ Len(pendingMicrotasks) = 2
  /\ SecondCallbackPending
  /\ Len(tracer.microtaskQueue) = 2
  /\ tracer.consoleOutput = <<>>

\* the step recorded last
LastRecorded == tracer.objects[Last(tracer.steps)]

\* C23: the eventLoopPhase recorded in every trace step is one of the labels
\* the event-loop panel renders ('executing', 'microtasks', 'macrotasks',
\* 'idle'), and every phase transition of the event loop is recorded as a
\* trace step carrying the new label.
C23_PhaseLabels ==
  (InGenerateTrace /\ Len(tracer.steps) > 0) =>
    /\ LastRecorded.eventLoopPhase \in phaseConfig
    /\ LastRecorded.eventLoopPhase = tracer.eventLoopPhase

\* the labels generateTrace records, none but 'executing' known to the panel
C23_RecordedLabels ==
  (InGenerateTrace /\ Len(tracer.steps) > 0) =>
    /\ LastRecorded.eventLoopPhase
         \in {"executing", "checking-queues", "microtask", "timer-complete", "callback"}
    /\ LastRecorded.eventLoopPhase = tracer.eventLoopPhase

\* the run of the nested program has recorded steps under all four labels
\* the panel does not know
C23_UnknownLabelsRecorded ==
  /\ pc = "return"
  /\ code = Src(NestedAsyncProgram)
  /\ {tracer.objects[tracer.steps[k]].eventLoopPhase : k \in 1..Len(tracer.steps)}
       = {"executing", "checking-queues", "microtask", "timer-complete", "callback"}

\* control is about to leave a try statement that has a finally block: the
\* try block or the handler has completed (normally or with a signal), or
\* a throw is not caught (no handler, or thrown from the handler)
LeavingTry ==
  /\ TopIs("try")
  /\ Top.node.finalizer.type # "null"
  /\ \/ ctl.k = "ret" /\ Top.stage \in {"block", "handler"}
     \/ ctl.k = "throw" /\ Top.stage = "block" /\ Top.node.handler.type = "null"
     \/ ctl.k = "throw" /\ Top.stage = "handler"

\* the finally block of a try statement has completed normally while a
\* throw was pending
FinallyDoneWithThrow ==
  /\ TopIs("try")
  /\ Top.stage = "finalizer"
  /\ Top.pending.k = "throw"
  /\ ctl.k = "ret"
  /\ ctl.v.t # "ReturnSignal"

\* C24: the finally block of a try statement is entered on every way out of
\* the try statement (normal completion of the try block, a return inside
\* it, a caught throw, an uncaught or rethrown throw), and a throw that was
\* not caught still propagates once the finally block has completed normally.
C24_FinallyAlwaysRuns ==
  /\ [][LeavingTry =>
          /\ Len(kont') = Len(kont)
          /\ kont' = Append(Pop, [Top EXCEPT !.stage = "finalizer", !.pending = Top'.pending])
          /\ ctl' = Exec(Top.node.finalizer, Top.env)
          /\ LastRecorded'.description = "Entering finally block"
          /\ ctl.k = "throw" => Top'.pending = ctl
          /\ (ctl.k = "ret" /\ ctl.v.t = "ReturnSignal") => Top'.pending = ctl]_vars
  /\ [][FinallyDoneWithThrow => (ctl' = Top.pending /\ kont' = Pop)]_vars
  /\ []((Done /\ code = Src(FinallyProgram)) =>
          /\ result.error = Null
          /\ RecordedConsole = <<"\"f\"", "1", "\"g\"", "\"x\"", "\"done\"">>)

\* f() has returned 1 through its finally block and the throw of g() has
\* passed g's finally block and been caught by the caller
C24_Witness ==
  /\ Done
  /\ code = Src(FinallyProgram)
  /\ RecordedConsole = <<"\"f\"", "1", "\"g\"", "\"x\"", "\"done\"">>
  /\ Cardinality({i \in 1..Len(result.steps) :
                    StepsOf(tracer, result.steps)[i].description = "Entering finally block"}) = 3

\* the activation records of loops, and of what a break may end
LoopFrames == {"while", "for", "forof"}

BreakableFrames == LoopFrames \cup {"switch"}

\* the position in kont of the innermost activation record of one of the
\* kinds, 0 when there is none
Innermost(kinds) ==
  LET at == {i \in 1..Len(kont) : kont[i].k \in kinds} IN
    IF at = {} THEN 0 ELSE CHOOSE i \in at : \A j \in at : j <= i

\* a statement has just returned a signal of the type
Signalled(type) == ctl.k = "ret" /\ ctl.v.t = type

\* C25: a Break or Continue signal never passes the nearest enclosing loop
\* or switch and a Return signal never passes the nearest enclosing function
\* invocation; no signal object becomes the result of a function call or
\* reaches the program root.
C25_SignalContainment ==
  /\ [](Signalled("BreakSignal") =>
          Innermost(BreakableFrames) > Innermost({"invoke", "program"}))
  /\ [](Signalled("ContinueSignal") =>
          Innermost(LoopFrames) > Innermost({"invoke", "program"}))
  /\ [](Signalled("ReturnSignal") => Innermost({"invoke"}) > Innermost({"program"}))
  /\ []((TopIs("program") /\ ctl.k = "ret") => ~IsSignal(ctl.v))
  /\ [][(Len(kont) > 0 /\ ctl.k = "ret" /\ Top.k \in BreakableFrames /\ ctl'.k = "ret")
          => ctl'.v.t # "BreakSignal"]_vars
  /\ [][(Len(kont) > 0 /\ ctl.k = "ret" /\ Top.k \in LoopFrames /\ ctl'.k = "ret")
          => ctl'.v.t # "ContinueSignal"]_vars
  /\ [][(TopIs("invoke") /\ ctl.k = "ret" /\ Len(kont') < Len(kont)) =>
          (ctl'.k = "ret" /\ ~IsSignal(ctl'.v))]_vars

\* h(2) has returned 2 from inside its while loop, after a continue and a
\* return had each reached their loop and their invocation, and the break
\* of the switch has ended the switch
C25_Witness ==
  /\ Done
  /\ code = Src(ReturnInLoopProgram)
  /\ result.error = Null
  /\ RecordedConsole = <<"2", "\"two\"">>

\* what ControlProgram prints when the signal takes effect on the for loop:
\* break ends the loop in its first iteration, continue skips the rest of
\* each of the two iterations
EffectOnLoop(s) ==
  IF s = BreakStatement THEN <<"\"a\"", "\"end\"">> ELSE <<"\"a\"", "\"a\"", "\"end\"">>

\* the nestings of C26 in which the signal is meant for the loop (a break
\* directly in a switch case ends the switch)
LoopSignals ==
  {<<wrap, s>> : wrap \in Wraps, s \in {BreakStatement, ContinueStatement}}
    \ {<<"switch", BreakStatement>>}

\* C26: a break or continue executed inside a try block, a catch handler or
\* a switch case nested in a loop body takes effect on the nearest enclosing
\* loop, exactly as when it is nested only in if statements and blocks.
C26_SignalsTakeEffect ==
  \A ws \in LoopSignals :
    (Done /\ code = Src(ControlProgram(ws[1], ws[2]))) =>
      /\ result.error = Null
      /\ RecordedConsole = EffectOnLoop(ws[2])

\* the part of C26 that holds: nested in if statements and blocks, the
\* signal takes effect on the loop
C26_IfAndBlockTakeEffect ==
  \A wrap \in {"if", "block"}, s \in {BreakStatement, ContinueStatement} :
    (Done /\ code = Src(ControlProgram(wrap, s))) =>
      /\ result.error = Null
      /\ RecordedConsole = EffectOnLoop(s)

\* the break inside the try block is dropped: both iterations run to their end
C26_BreakInTryDropped ==
  /\ Done
  /\ code = Src(ControlProgram("try", BreakStatement))
  /\ result.error = Null
  /\ RecordedConsole = <<"\"a\"", "\"b\"", "\"a\"", "\"b\"", "\"end\"">>

\* the step-limit error has just been raised
StepLimitRaised == ctl.k = "throw" /\ ctl.v = StepLimitError

\* C27: the step-limit error is fatal and terminal: once the counter has
\* reached the ceiling no further statement is counted or executed, and the
\* error, once raised, stays raised (a try statement can only hand it to a
\* handler or finally block whose first statement raises it again) until
\* generateTrace appends the error step naming the ceiling as the last step;
\* the step counter never exceeds MAX_STEPS.
C27_StepLimitFatal ==
  /\ [](stepCount <= MAX_STEPS)
  /\ [][stepCount = MAX_STEPS => (stepCount' = MAX_STEPS \/ pc' = "generateTrace")]_vars
  /\ [][StepLimitRaised =>
          \/ StepLimitRaised'
          \/ ctl'.k = "exec"
          \/ pc' = "return" /\ EndsAtCeiling(tracer.steps)']_vars

\* the part of C27 that holds: raised inside try { } catch { } finally { },
\* the error is caught and the finally block entered, but no statement of
\* either runs: nothing is printed and the counter stays at the ceiling
C27_NoStatementAfterCeiling ==
  code = Src(TypeofLoopProgram) =>
    /\ tracer.consoleOutput = <<>>
    /\ pc = "return" => stepCount = MAX_STEPS

\* typeof has swallowed the step-limit error raised inside g(), after the
\* handler and the finally block of g were entered: the run ends as a normal
\* completion, with no error step
C27_SwallowedByTypeof ==
  /\ pc = "return"
  /\ code = Src(TypeofLoopProgram)
  /\ stepCount = MAX_STEPS
  /\ err = NoErr
  /\ LastRecorded.type = "end"
  /\ \A i \in 1..Len(tracer.steps) : tracer.objects[tracer.steps[i]].type # "error"
  /\ \E i \in 1..Len(tracer.steps) :
       tracer.objects[tracer.steps[i]].description = "Entering finally block"

\* the environments that hold a binding of the name
HoldersOf(name) == {e \in 1..Len(envs) : name \in DOMAIN envs[e].vars}

\* C28: a var whose name no frame of the current chain holds (the
\* initialiser of a for loop, which hoisting did not pre-bind) is created in
\* the global environment, so global code reads it after the loop has ended.
C28_ImplicitGlobal ==
  \A n \in 1..MaxLoop :
    code = Src(VarVsLetProgram(n)) =>
      /\ HoldersOf("i") \subseteq {1}
      /\ Done => /\ result.error = Null
                 /\ RecordedConsole = <<"\"var i after loop:\" " \o ToString(n)>>

\* envSet has bound the var of the for initialiser in the environment of the
\* loop, and the read after the loop fails
C28_VarBoundInLoopEnv ==
  /\ Done
  /\ code = Src(VarVsLetProgram(MaxLoop))
  /\ result.error = Str("Runtime Error: i is not defined")
  /\ RecordedConsole = <<>>
  /\ \E e \in HoldersOf("i") : e # 1 /\ envs[e].name = "for-block" /\ envs[e].parent = 1

\* a user closure has just been invoked: its activation record is new on kont
Invoked == Len(kont') = Len(kont) + 1 /\ kont'[Len(kont')].k = "invoke"

\* the environments that hold count (the one makeCounter ran in)
CountEnv == CHOOSE e \in HoldersOf("count") : TRUE

\* C29: the environment of an invoked closure is parented at the
\* environment the closure was created in, not at the caller's: a binding
\* of the caller's chain only is not visible in the callee, and a binding of
\* the defining scope stays visible and mutable after the defining function
\* has returned.
C29_LexicalScoping ==
  /\ [][Invoked =>
          LET frame == kont'[Len(kont')] IN
            /\ frame.env = Len(envs')
            /\ envs'[frame.env].type = "function"
            /\ envs'[frame.env].parent = frame.callee.closureEnv]_vars
  /\ []((Done /\ code = Src(CounterClosureProgram)) =>
          /\ result.error = Null
          /\ RecordedConsole = <<"1 2", "\"hidden\"">>
          /\ envs[CountEnv].name = "makeCounter"
          /\ envs[CountEnv].vars["count"].value = Num(2))

\* counter() has been called twice after makeCounter returned and has
\* counted in makeCounter's environment; show(), called from caller(), has
\* not found the secret of its caller
C29_Witness ==
  /\ Done
  /\ code = Src(CounterClosureProgram)
  /\ RecordedConsole = <<"1 2", "\"hidden\"">>
  /\ HoldersOf("count") # {}
  /\ envs[CountEnv].vars["count"].value = Num(2)
  /\ \E e \in HoldersOf("secret") : envs[e].name = "caller"

\* an iteration of a for-of or for-in loop has just begun
IterationBegun == TopIs("forof") /\ ctl = Iter /\ Top.items # <<>> /\ ctl'.k = "exec"

\* what the closures of ForOfProgram print: the items, or their keys
ItemsPrinted(type) ==
  [i \in 1..Len(Items) |->
     IF type = "ForOfStatement" THEN fmt(Items[i]) ELSE fmt(Str(ToString(i - 1)))]

\* C30: every iteration of a for-of or for-in loop gets a new environment
\* holding that iteration's loop variable; closures created in different
\* iterations capture different bindings and each reports its own
\* iteration's item when invoked after the loop.
C30_FreshEnvPerIteration ==
  /\ [][IterationBegun =>
          /\ Len(envs') = Len(envs) + 1
          /\ ctl'.env = Len(envs')
          /\ envs'[ctl'.env].parent = Top.env
          /\ envs'[ctl'.env].vars[Top.node.left.name].value = Top.items[1]
          /\ SubSeq(envs', 1, Len(envs)) = envs]_vars
  /\ [](\A type \in {"ForOfStatement", "ForInStatement"} :
          (Done /\ code = Src(ForOfProgram(type))) =>
            /\ result.error = Null
            /\ RecordedConsole = ItemsPrinted(type)
            /\ Cardinality(HoldersOf("item")) = Len(Items))

\* the closures made in the two iterations of the for-of loop have been
\* called after the loop and have printed 10 and 20, each item held in an
\* environment of its own
C30_Witness ==
  /\ Done
  /\ code = Src(ForOfProgram("ForOfStatement"))
  /\ RecordedConsole = <<"10", "20">>
  /\ {envs[e].vars["item"].value : e \in HoldersOf("item")} = {Num(10), Num(20)}

\* a block has just been entered: the activation record of a program, of a
\* function with a block body or of a nested block is new on kont, with all
\* its statements still to run
BlockEntered ==
  /\ Len(kont') = Len(kont) + 1
  /\ kont'[Len(kont')].k \in {"program", "block"}
     \/ (kont'[Len(kont')].k = "invoke" /\ ~kont'[Len(kont')].exprBody)

\* the names bound by the statements of the types at the top level of a body
DeclaredNames(body, types, kinds) ==
  {body[i].name : i \in {j \in 1..Len(body) : /\ body[j].type \in types
                                              /\ (body[j].type = "VariableDeclaration"
                                                    => body[j].kind \in kinds)}}

\* C31: hoisting runs before any statement of a block (program, function
\* body, nested block) executes: every function declaration at the top level
\* of the block is bound to its closure over the block's environment and
\* every top-level var is bound, to undefined unless the frame already held
\* the name (a parameter); a function can be called and a var read as
\* undefined before its declaration statement runs.
C31_HoistingBeforeStatements ==
  /\ [][BlockEntered =>
          LET frame == kont'[Len(kont')]
              vs == envs'[frame.env].vars
              params == IF frame.k = "invoke" THEN Range(frame.callee.params) ELSE {}
          IN /\ ctl'.k = "ret"
             /\ \A i \in 1..Len(frame.rest) :
                  frame.rest[i].type = "FunctionDeclaration" =>
                    /\ frame.rest[i].name \in DOMAIN vs
                    /\ vs[frame.rest[i].name].value =
                         TracedFunction(frame.rest[i].name, frame.rest[i].params,
                                        frame.rest[i].body, frame.env)
             /\ \A n \in DeclaredNames(frame.rest, {"VariableDeclaration"}, {"var"}) :
                  /\ n \in DOMAIN vs
                  /\ n \notin params \cup DeclaredNames(frame.rest, {"FunctionDeclaration"}, {})
                       => vs[n].value = Undefined
                  /\ n \in params => vs[n].kind = "let"]_vars
  /\ []((Done /\ code = Src(HoistingProgram)) =>
          /\ result.error = Null
          /\ RecordedConsole = <<"undefined", "1", "undefined", "\"g\"", "7">>)

\* the program that reads a var, calls a function and reads a parameter
\* shadowed by a var before the declarations run has printed undefined, 1,
\* undefined, g, 7
C31_Witness ==
  /\ Done
  /\ code = Src(HoistingProgram)
  /\ RecordedConsole = <<"undefined", "1", "undefined", "\"g\"", "7">>

\* the value a variable declaration is about to bind in this transition:
\* execVariableDeclaration as a statement, or as the initialiser of a for
DeclaringHeapValue ==
  IF TopIs("declare") /\ ctl.k = "ret"
  THEN IsHeapValue(ctl.v)
  ELSE IF ExecIs("ForStatement")
       THEN IF ctl.node.init.type = "VariableDeclaration"
            THEN LET value == evalExpression(Append(envs, createEnv(ctl.env, "for-block", "block")),
                                             ctl.node.init.init, Len(envs) + 1)
                 IN value.ok /\ IsHeapValue(value.v)
            ELSE FALSE
       ELSE FALSE

\* a transition inside one run of the interpreter (a new run starts with a
\* new tracer)
SameRun == ~(tracer'.steps = <<>> /\ tracer.steps # <<>>)

HeapOf(i) == tracer.objects[tracer.steps[i]].memoryHeap

InvocationEnds == Len(kont) > 0 /\ TopIs("invoke") /\ kont' = Pop

\* a thrown value is passing through the invocation on top of the stack and a
\* try statement of a caller, still in its block and with a catch clause,
\* will catch it
CaughtByCaller ==
  /\ ctl.k = "throw"
  /\ \E i \in 1..(Len(kont) - 1) :
       /\ kont[i].k = "try"
       /\ kont[i].stage = "block"
       /\ kont[i].node.handler.type # "null"

\* the event loop starts a callback: an invocation with no caller
CallbackStarts == kont = <<>> /\ Len(kont') = 1 /\ kont'[1].k = "invoke"

FramePopped ==
  /\ tracer.callStack # <<>>
  /\ tracer'.callStack = SubSeq(tracer.callStack, 1, Len(tracer.callStack) - 1)

\* C33: call frames are balanced on every exit path. When an invocation of a
\* user function ends, by return, by falling off the end of the body, or by a
\* thrown value that a try of a caller catches, the frame pushed for it is
\* popped from the recorded call stack; and the call stack is empty whenever
\* the event loop starts a callback.
C33_FramesBalanced ==
  /\ [][(InvocationEnds /\ (ctl.k = "ret" \/ CaughtByCaller)) => FramePopped]_vars
  /\ [][CallbackStarts => tracer.callStack = <<>>]_vars

\* the part of C33 that holds: an invocation that ends by a return statement
\* or by the end of its body pops the frame pushed for it
C33_BalancedOnReturn ==
  [][(InvocationEnds /\ ctl.k = "ret") => FramePopped]_vars

\* the frame of a throwing invocation stays on the call stack after a caller
\* caught the thrown value
C33_FrameLeftAfterCatch ==
  [][(InvocationEnds /\ CaughtByCaller) => tracer'.callStack = tracer.callStack]_vars

\* an invocation of a function with a block body ends without having
\* executed a return statement
FallsOffTheEnd ==
  /\ InvocationEnds
  /\ ctl.k = "ret"
  /\ ~Top.exprBody
  /\ ctl.v.t # "ReturnSignal"

\* C34: a user function's result is the value of the Return signal it
\* executes; an invocation whose block body completes without executing a
\* return statement yields undefined, whatever its last statement evaluated to.
C34_ResultIsReturnValue ==
  /\ [][FallsOffTheEnd => ctl' = Ret(Undefined)]_vars
  /\ [][(InvocationEnds /\ ctl.k = "ret" /\ ctl.v.t = "ReturnSignal")
          => ctl' = Ret(ctl.v.value)]_vars

\* the part of C34 that holds: the value of an executed return statement is
\* the result of the invocation
C34_ReturnedValue ==
  [][(InvocationEnds /\ ctl.k = "ret" /\ ctl.v.t = "ReturnSignal")
       => ctl' = Ret(ctl.v.value)]_vars

\* what the interpreter yields instead: the value of the last statement of
\* the body
C34_LastStatementValue ==
  [][FallsOffTheEnd => ctl' = Ret(ctl.v)]_vars

\* f() { 5 } yields 5: the run of FallOffProgram prints 5, not undefined
C34_FallOffPrintsLastValue ==
  (Done /\ code = Src(FallOffProgram)) => RecordedConsole = <<"5">>

\* C35: the microtask queue shown in the trace matches the work the
\* interpreter will do. At every step the recorded microtaskQueue has as many
\* entries as the list of pending microtask callbacks; an entry leaves the
\* recorded queue exactly when a pending callback is taken for processing;
\* and the queue is empty at the last step of a run that ends without error.
C35_MicrotaskQueueMatches ==
  /\ [](tracer.steps # <<>> => Len(LastRecorded.microtaskQueue) = Len(pendingMicrotasks))
  /\ [][SameRun =>
          ((Len(tracer'.microtaskQueue) < Len(tracer.microtaskQueue))
             <=> (pendingMicrotasks # <<>> /\ pendingMicrotasks' = Tail(pendingMicrotasks)))]_vars
  /\ []((Done /\ result.error = Null /\ result.steps # <<>>) => LastStep.microtaskQueue = <<>>)

\* the part of C35 that holds: an entry leaves the recorded queue exactly
\* when a pending callback is taken for processing
C35_RemovedWhenProcessed ==
  [][SameRun =>
       ((Len(tracer'.microtaskQueue) < Len(tracer.microtaskQueue))
          <=> (pendingMicrotasks # <<>> /\ pendingMicrotasks' = Tail(pendingMicrotasks)))]_vars

\* .then(null) leaves an entry in the recorded queue that no pending callback
\* stands for: the run of ThenNullProgram ends without error, its last step
\* showing one microtask
C35_EntryWithoutCallback ==
  (Done /\ code = Src(ThenNullProgram)) =>
    /\ result.error = Null
    /\ Len(LastStep.microtaskQueue) = 1
    /\ pendingMicrotasks = <<>>

\* the call being evaluated is a call of the resolve or reject function of a
\* new Promise
ResolveCalled ==
  IF EvalCallIs("function")
  THEN LET callee == evalExpression(envs, ctl.node.callee, ctl.env) IN
         callee.ok /\ callee.v.t = "resolveFn"
  ELSE FALSE

ResolveCallee == evalExpression(envs, ctl.node.callee, ctl.env).v

\* C36: new Promise(executor) runs the executor to completion synchronously,
\* before the statement that follows the new expression: while
\* handleNewPromise is active the frames of its callers do not move, and the
\* run of the promise-basics example prints 1, 2, 4, 3. A call of resolve or
\* reject only records the value on the promise record: it leaves the
\* microtask queue, the callback queue, the Web APIs and the lists of pending
\* microtasks and timers unchanged. Only a .then call enqueues a microtask.
C36_ExecutorSynchronous ==
  /\ [][\A i \in 1..Len(kont) :
          (kont[i].k = "newpromise" /\ Len(kont') >= i)
            => /\ kont'[i].k = "newpromise"
               /\ SubSeq(kont', 1, i - 1) = SubSeq(kont, 1, i - 1)]_vars
  /\ [][ResolveCalled =>
          /\ tracer'.microtaskQueue = tracer.microtaskQueue
          /\ tracer'.callbackQueue = tracer.callbackQueue
          /\ tracer'.webApis = tracer.webApis
          /\ pendingMicrotasks' = pendingMicrotasks
          /\ pendingTimers' = pendingTimers
          /\ Len(kont') = Len(kont)
          /\ \A i \in 1..Len(kont) :
               (kont[i].k = "newpromise" /\ kont[i].promiseObj.id = ResolveCallee.promise)
                 => IF ResolveCallee.name = "resolve"
                    THEN kont'[i].promiseObj.resolvedValue = ArgOr(CallArgs, 1, Undefined)
                    ELSE IF "rejectedValue" \in DOMAIN kont'[i].promiseObj
                         THEN kont'[i].promiseObj.rejectedValue = ArgOr(CallArgs, 1, Undefined)
                         ELSE FALSE]_vars
  /\ [][(SameRun /\ (\/ Len(tracer'.microtaskQueue) > Len(tracer.microtaskQueue)
                     \/ Len(pendingMicrotasks') > Len(pendingMicrotasks)))
          => (TopIs("then") /\ ctl.k = "ret")]_vars
  /\ []((Done /\ code = Src(PromiseBasicsProgram)) =>
          /\ result.error = Null
          /\ RecordedConsole = <<"\"1 - Start\"", "\"2 - Promise executor\"", "\"4 - End\"",
                                 "\"3 - Then:\" \"done\"">>)
  /\ []((Done /\ code = Src(PromiseSettleProgram)) =>
          /\ result.error = Null
          /\ RecordedConsole =
               <<"{__isPromise: true, __resolvedValue: undefined, __rejectedValue: \"no\"}",
                 "{__isPromise: true, __resolvedValue: \"late\", __rejectedValue: \"no\"}">>)

\* the promise-basics example has run: the executor logged and resolved
\* before "4 - End", the .then callback received the resolved value
C36_Witness ==
  /\ Done
  /\ code = Src(PromiseBasicsProgram)
  /\ RecordedConsole = <<"\"1 - Start\"", "\"2 - Promise executor\"", "\"4 - End\"",
                         "\"3 - Then:\" \"done\"">>
  /\ \E i \in 1..Len(result.steps) :
       tracer.objects[result.steps[i]].description = "resolve(\"done\") -> undefined"

\* executeCode returns the trace generateTrace produced
Returning == pc = "return" /\ pc' = "done"

\* the k-th step generateTrace produced is the k-th step executeCode returns
SameStep(k) == tracer'.objects[result'.steps[k]] = tracer.objects[tracer.steps[k]]

\* C37: driver truncation. executeCode returns at most 1501 steps; when the
\* interpreter produced more than 1500 steps the result is its first 1500
\* steps followed by one synthetic step of type 'warning'; when it produced
\* 1500 or fewer the trace is returned unchanged.
C37_DriverTruncation ==
  /\ [](Done => Len(result.steps) <= TRUNCATE_AT + 1)
  /\ [][Returning =>
          IF Len(tracer.steps) > TRUNCATE_AT
          THEN /\ Len(result'.steps) = TRUNCATE_AT + 1
               /\ \A k \in 1..TRUNCATE_AT : SameStep(k)
               /\ tracer'.objects[result'.steps[TRUNCATE_AT + 1]].type = "warning"
               /\ \A k \in 1..TRUNCATE_AT : tracer'.objects[result'.steps[k]].type # "warning"
          ELSE /\ Len(result'.steps) = Len(tracer.steps)
               /\ \A k \in 1..Len(tracer.steps) : SameStep(k)]_vars

\* a run of more than 1500 steps was returned cut, with the warning as its
\* last step
C37_Witness ==
  /\ Done
  /\ Len(result.steps) = TRUNCATE_AT + 1
  /\ LastStep.type = "warning"
  /\ tracer.objects[result.steps[TRUNCATE_AT]].type # "warning"

\* 0 <= index <= max(totalSteps - 1, 0)
InRange(index, total) == 0 <= index /\ index <= Max(total - 1, 0)

\* C38: the playback index stays in range. In App (its handlers behind the
\* buttons of ExecutionControls) and in useVisualizer, after any sequence of
\* run, example selection, reset, step forward, step backward, go to start,
\* go to end, go to step, scrubbing, toggle play and auto-play ticks, the
\* current step index is between 0 and max(totalSteps - 1, 0), also when the
\* trace is empty; and only a run, an example selection or a reset replaces
\* the trace, no action modifies it.
C38_IndexInRange ==
  /\ [](InRange(app.currentStepIndex, Len(app.trace)))
  /\ [](InRange(visualizer.currentStep, Len(visualizer.steps)))
  /\ [][app'.trace # app.trace => (handleRun \/ handleExampleSelect)]_vars
  /\ [][visualizer'.steps # visualizer.steps => (run \/ reset)]_vars
  /\ [](app.trace \in Traces /\ visualizer.steps \in Traces)

\* App stands at the last step of a longest trace while the hook, its trace
\* empty, was told to play
C38_Witness ==
  /\ Len(app.trace) = MaxTrace
  /\ app.currentStepIndex = MaxTrace - 1
  /\ visualizer.steps = <<>>
  /\ visualizer.currentStep = 0
  /\ visualizer.isPlaying

\* C39: auto-play stops at the end. While playing, a tick before the last
\* step advances the index by exactly one and never passes the end; at the
\* last step playback stops and the index stays there (in App as soon as the
\* index reaches the last step, in useVisualizer at the next tick); a run or
\* an example selection stops playback and sets the index to 0; play pressed
\* at the last step restarts from index 0.
C39_AutoPlayStopsAtEnd ==
  /\ [][AutoPlayTick =>
          /\ app'.currentStepIndex = app.currentStepIndex + 1
          /\ app'.currentStepIndex <= totalSteps - 1
          /\ app'.isPlaying <=> app'.currentStepIndex < totalSteps - 1]_vars
  /\ [](app.isPlaying => app.currentStepIndex < totalSteps - 1)
  /\ [][IntervalTick =>
          IF visualizer.currentStep < Len(visualizer.steps) - 1
          THEN /\ visualizer'.currentStep = visualizer.currentStep + 1
               /\ visualizer'.isPlaying
          ELSE /\ visualizer'.currentStep = visualizer.currentStep
               /\ ~visualizer'.isPlaying]_vars
  /\ [][(handleRun \/ handleExampleSelect)
          => (app'.currentStepIndex = 0 /\ ~app'.isPlaying)]_vars
  /\ [][run => (visualizer'.currentStep = 0 /\ ~visualizer'.isPlaying)]_vars
  /\ [][(/\ ~visualizer.isPlaying
         /\ visualizer'.isPlaying
         /\ Len(visualizer.steps) > 0
         /\ visualizer.currentStep = Len(visualizer.steps) - 1)
          => visualizer'.currentStep = 0]_vars
  /\ [][(/\ ~app.isPlaying
         /\ app'.isPlaying
         /\ totalSteps > 0
         /\ app.currentStepIndex = totalSteps - 1)
          => app'.currentStepIndex = 0]_vars

\* auto-play of the hook has arrived at the last step of a longest trace and
\* is still playing (the next tick stops it), while App, having arrived
\* there, has stopped
C39_Witness ==
  /\ Len(visualizer.steps) = MaxTrace
  /\ visualizer.currentStep = MaxTrace - 1
  /\ visualizer.isPlaying
  /\ Len(app.trace) = MaxTrace
  /\ app.currentStepIndex = MaxTrace - 1
  /\ ~app.isPlaying

====
